---------------------------- MODULE Spec2Model ----------------------------
(***************************************************************************)
(* keiba-mvp: the paste parser (src/src/parser.ts), the scorers            *)
(* (src/src/evaluator.ts, src/unnamed/part_001, src/unnamed/part_000) and  *)
(* the aggregator recommendedSorted, as state machines.                    *)
(*                                                                         *)
(* Numbers with one decimal (odds, place ranges) are integers in tenths:   *)
(* 2.2 is 22, 3.0 is 30.  An optional value is None (absent, undefined or  *)
(* null in the source) or Some(v).  Japanese text is written in ASCII:     *)
(* the venue U+4E2D U+5C71 is "Nakayama", U+6771 U+4EAC is "Tokyo".        *)
(***************************************************************************)
EXTENDS Integers, Sequences, FiniteSets, TLC

None == << >>
Some(v) == << v >>
IsSome(x) == x # None
Val(x) == x[1]
\* JS  x ?? d
OrElse(x, d) == IF x = None THEN d ELSE Val(x)

Min(S) == CHOOSE x \in S : \A y \in S : x <= y
Max(S) == CHOOSE x \in S : \A y \in S : x >= y
Last(s) == s[Len(s)]

(***************************************************************************)
(* State.                                                                  *)
(***************************************************************************)
\* parseAll (parser.ts:152-295)
VARIABLES
    input,             \* the lines read so far
    pc,                \* "lines": in the loop; "done": parseAll has returned
    blocks,
    currentTrack,
    currentRaceNo,
    currentRunners,
    pendingHorseName,
    cardActive,
    cardHorseName,
    cardWinOdds,
    cardWinPop,
    stats,
    log                \* history: the headers taken and the runners pushed,
                       \* each with the number of the line that did it

\* evaluate: its argument, the scorer that ran ("" before the call) and the
\* PickCard it returned
VARIABLES block, scorer, card

\* recommendedSorted: its argument, whether it has returned, and its result
VARIABLES cards, sortPc, recommended

\* normalize: its argument, the calls made so far (0..2) and the last result
VARIABLES text, normCalls, normalized

\* estimatePlaceLowFromWinOdds: its argument, whether it has returned, and
\* its result
VARIABLES estArg, estPc, estResult

\* App (evaluator.ts:107-211): the state of the component, and the last
\* handler that ran with the worklist position it was given and its outcome
VARIABLES analyzed, mode, updateTargets, updateInputs, lastOp

parserVars == <<input, pc, blocks, currentTrack, currentRaceNo, currentRunners,
                pendingHorseName, cardActive, cardHorseName, cardWinOdds,
                cardWinPop, stats, log>>
evalVars == <<block, scorer, card>>
sortVars == <<cards, sortPc, recommended>>
normVars == <<text, normCalls, normalized>>
estVars == <<estArg, estPc, estResult>>
appVars == <<analyzed, mode, updateTargets, updateInputs, lastOp>>
vars == <<parserVars, evalVars, sortVars, normVars, estVars, appVars>>


(***************************************************************************)
(* Bounds of the model.                                                    *)
(***************************************************************************)
\* lines of pasted text fed to parseAll
MaxLines == 4

(***************************************************************************)
(* A pasted line, after normalize, trim and the removal of empty lines     *)
(* (parser.ts:153-154), is a sequence of tokens.  A token is one piece of  *)
(* text of a kind the recognizers' regular expressions tell apart:         *)
(*   track  a venue of TRACKS                  s = the venue               *)
(*   race   "7R", "7 race-word"                a = the race number 1..12   *)
(*   frame  the frame marker, waku + digit     a = the frame number        *)
(*   word   text without digits, sex marks,    s = the text                *)
(*          noise words, "kg", "man-yen", "nen",                           *)
(*          of 2..6 characters (b = 0) or of 7..25 (b = 1)                 *)
(*   int    "7"                                a = the integer             *)
(*   dec    "28.8"                             a = the number in tenths    *)
(*   ppop   "(9 ban-ninki)"                    a = the popularity          *)
(*   bpop   "9 ban-ninki"                      a = the popularity          *)
(*   npop   "9 ninki"                          a = the popularity          *)
(*   range  "2.2-3.4"; s = "place" when it     a, b = low, high in tenths  *)
(*          carries the place label (fuku)                                 *)
(*   win    "tan 4.5"                          a = the number in tenths    *)
(*   noise  text holding a noise word (stable, farm, blinkers, ...)        *)
(*   time   "1:34.5": digits, no pattern of    a = its trailing number     *)
(*          its own                                                        *)
(***************************************************************************)
Tk(k, s, a, b) == [k |-> k, s |-> s, a |-> a, b |-> b]
Track(s) == Tk("track", s, 0, 0)
Race(n) == Tk("race", "", n, 0)
Frame(n) == Tk("frame", "", n, 0)
Word(s) == Tk("word", s, 0, 0)
LongWord(s) == Tk("word", s, 0, 1)
Digits(n) == Tk("int", "", n, 0)
Dec(n) == Tk("dec", "", n, 0)
PPop(n) == Tk("ppop", "", n, 0)
BPop(n) == Tk("bpop", "", n, 0)
NPop(n) == Tk("npop", "", n, 0)
Range(lo, hi) == Tk("range", "", lo, hi)
PlaceRange(lo, hi) == Tk("range", "place", lo, hi)
Win(n) == Tk("win", "", n, 0)
NoiseWord == Tk("noise", "", 0, 0)
Time(n) == Tk("time", "", n, 0)

TRACKS == {"Sapporo", "Hakodate", "Fukushima", "Niigata", "Tokyo",
           "Nakayama", "Chukyo", "Kyoto", "Hanshin", "Kokura"}

\* a token that is a number by itself: /\d+(?:\.\d+)?/ over the whole token
IsNum(t) == t.k \in {"int", "dec"}
\* Number(token) in tenths
NumVal(t) == IF t.k = "int" THEN 10 * t.a ELSE t.a
\* a token whose text has no digit, no sex mark and no noise word; a line of
\* such tokens is taken to be 2..25 characters long (parser.ts:76)
IsPlainText(t) == t.k \in {"word", "track"}
\* a token holding /(\d{1,2})\s*(?:ban)?ninki/
IsPopMark(t) == t.k \in {"ppop", "bpop", "npop"}
\* the number a token's text ends with, for /(\d+(?:\.\d+)?)\s+(\d{1,2})\s*$/
EndsWithNumber(t) == t.k \in {"int", "dec", "range", "win", "time"}
TrailingNumber(t) ==
    CASE t.k = "int" -> 10 * t.a
      [] t.k = "range" -> t.b
      [] OTHER -> t.a

(***************************************************************************)
(* The recognizers of parser.ts.                                           *)
(***************************************************************************)
detectHeader(line) ==
    LET M1 == {i \in 1..(Len(line) - 1) :
                  /\ line[i].k = "track"
                  /\ line[i + 1].k = "race"
                  /\ line[i].s \in TRACKS
                  /\ line[i + 1].a >= 1 /\ line[i + 1].a <= 12}
        M2 == {i \in 1..Len(line) :
                  line[i].k = "race" /\ line[i].a >= 1 /\ line[i].a <= 12}
    IN  IF M1 # {}
        THEN Some([trackName |-> Some(line[Min(M1)].s),
                   raceNo |-> line[Min(M1) + 1].a])
        ELSE IF M2 # {}
        THEN Some([trackName |-> None, raceNo |-> line[Min(M2)].a])
        ELSE None

isNoiseLine(line) ==
    \/ line = << >>
    \/ \E i \in 1..Len(line) : line[i].k = "noise"
    \/ Len(line) = 2 /\ line[1].k = "int" /\ line[2].k = "int"

detectFrameStart(line) == Len(line) >= 1 /\ line[1].k = "frame"

looksLikeHorseNameLine(line) ==
    /\ ~isNoiseLine(line)
    /\ \A i \in 1..Len(line) : IsPlainText(line[i])

parseOddsOnlyLine(line) ==
    IF Len(line) = 1 /\ line[1].k = "dec" THEN Some(line[1].a) ELSE None

parsePopularityOnlyLine(line) ==
    IF Len(line) = 1 /\ line[1].k \in {"ppop", "bpop"}
    THEN Some(line[1].a) ELSE None

parseOddsPopAtLineEnd(line) ==
    LET n == Len(line)
        Weights == {i \in 1..(n - 1) :
                       IsNum(line[i]) /\ NumVal(line[i]) >= 450
                                      /\ NumVal(line[i]) <= 650}
    IN  IF n >= 2 /\ line[n].k = "int" /\ line[n].a <= 99
                  /\ EndsWithNumber(line[n - 1])
        THEN Some([winOdds |-> TrailingNumber(line[n - 1]),
                   winPopularity |-> line[n].a,
                   jockeyName |-> IF Weights = {} THEN None
                                  ELSE Some(line[Min(Weights) + 1])])
        ELSE None

\* the three patterns of rangeM, in the order they are tried: a labelled
\* range, the label and two numbers (a "range" token as well: its text is
\* "fuku 2.2 3.4"), a bare range
RangeMatch(line) ==
    LET Labelled == {i \in 1..Len(line) :
                        line[i].k = "range" /\ line[i].s = "place"}
        Bare == {i \in 1..Len(line) : line[i].k = "range"}
    IN  IF Labelled # {} THEN Some(line[Min(Labelled)])
        ELSE IF Bare # {} THEN Some(line[Min(Bare)])
        ELSE None

\* the text "a-b" built from the two captured numbers, and its rendering
RangeText(a, b, dash) == [kind |-> "range", a |-> a, b |-> b, dash |-> dash]

\* RunnerParsed (part_004:3-12) without rawLine, which nothing reads
Runner(horseName, jockeyName, winPopularity, winOdds, placeLow, placeHigh, raw) ==
    [horseName |-> horseName, jockeyName |-> jockeyName,
     winPopularity |-> winPopularity, winOdds |-> winOdds,
     placeLow |-> placeLow, placeHigh |-> placeHigh,
     placeRangeRaw |-> raw]

\* a recognizer that takes a popularity mark alone for a runner
parseRunnerLineSingle_popAlone(line) ==
    LET PopM == {i \in 1..Len(line) : IsPopMark(line[i])}
    IN  IF PopM # {}
        THEN Some(Runner(None, None, Some(line[Min(PopM)].a), None, None, None, None))
        ELSE None

\* parser.ts:118-150
parseRunnerLineSingle(line) ==
    LET \* (1) name, odds, "(N ban-ninki)"
        M == {i \in 2..(Len(line) - 1) :
                 IsNum(line[i]) /\ line[i + 1].k = "ppop"}
        \* (2) a popularity mark and a place range
        PopM == {i \in 1..Len(line) : IsPopMark(line[i])}
        rangeM == RangeMatch(line)
        WoM == {i \in 1..Len(line) : line[i].k = "win"}
    IN  IF M # {}
        THEN Some(Runner(SubSeq(line, 1, Min(M) - 1), None,
                         Some(line[Min(M) + 1].a), Some(NumVal(line[Min(M)])),
                         None, None, None))
        ELSE IF PopM # {} /\ rangeM # None
        THEN Some(Runner(None, None,
                         Some(line[Min(PopM)].a),
                         IF WoM # {} THEN Some(line[Min(WoM)].a) ELSE None,
                         Some(Val(rangeM).a), Some(Val(rangeM).b),
                         Some(RangeText(Val(rangeM).a, Val(rangeM).b, "-"))))
        ELSE None

\* part_002:90-95
isLikelyJockeyName(t) == IsPlainText(t) /\ t.b = 0

\* part_002:98-148, the older recognizer: the range shape first, with the
\* jockey and horse names taken from the tokens left of the popularity
\* mark (a parenthesis before the mark is the last of them), then the shape
\* name, odds, "(N ban-ninki)"
parseRunnerLineSingle_002(line) ==
    LET M == {i \in 2..(Len(line) - 1) :
                 IsNum(line[i]) /\ line[i + 1].k = "ppop"}
        PopM == {i \in 1..Len(line) : IsPopMark(line[i])}
        rangeM == RangeMatch(line)
        WoM == {i \in 1..Len(line) : line[i].k = "win"}
        left == IF line[Min(PopM)].k = "ppop" THEN << >>
                ELSE SubSeq(line, 1, Min(PopM) - 1)
        found == left # << >> /\ isLikelyJockeyName(Last(left))
    IN  IF PopM # {} /\ rangeM # None
        THEN Some(Runner(IF found /\ Len(left) >= 2 THEN <<left[Len(left) - 1]>>
                         ELSE None,
                         IF found THEN Some(Last(left)) ELSE None,
                         Some(line[Min(PopM)].a),
                         IF WoM # {} THEN Some(line[Min(WoM)].a) ELSE None,
                         Some(Val(rangeM).a), Some(Val(rangeM).b),
                         Some(RangeText(Val(rangeM).a, Val(rangeM).b, "-"))))
        ELSE IF M # {}
        THEN Some(Runner(SubSeq(line, 1, Min(M) - 1), None,
                         Some(line[Min(M) + 1].a), Some(NumVal(line[Min(M)])),
                         None, None, None))
        ELSE None

(***************************************************************************)
(* The pasted lines the parser is fed.  Each is one of the shapes the      *)
(* recognizers tell apart; two of them match more than one recognizer.     *)
(***************************************************************************)
Lines ==
    { <<Track("Nakayama"), Race(7)>>,                     \* venue header
      <<Race(3)>>,                                        \* bare header
      <<Race(5), Word("HorseD"), Dec(80), PPop(4)>>,      \* header and runner
      <<Frame(1), Digits(1)>>,                            \* frame marker
      <<NoiseWord>>,                                      \* noise
      <<Word("HorseA")>>,                                 \* name alone
      <<Dec(309)>>,                                       \* odds alone
      <<PPop(5)>>,                                        \* popularity alone
      <<Word("HorseB"), Dec(124), PPop(6)>>,              \* shape (1)
      <<LongWord("HorseC"), NPop(2), PlaceRange(22, 34)>>,    \* shape (2)
      <<Word("HorseE"), Word("Jockey"), NPop(6), PlaceRange(20, 28)>>,
      <<Digits(55), Word("Jockey"), Dec(288), Digits(7)>>,  \* "... odds pop"
      <<Time(1345)>> }                                    \* nothing

(***************************************************************************)
(* parseAll (parser.ts:152-295), one step per line of the text.            *)
(***************************************************************************)
Block(trackName, raceNo, runners) ==
    [trackName |-> trackName, raceNo |-> raceNo, runners |-> runners]

ParserInit ==
    /\ input = << >>
    /\ pc = "lines"
    /\ blocks = << >>
    /\ currentTrack = None
    /\ currentRaceNo = None
    /\ currentRunners = << >>
    /\ pendingHorseName = None
    /\ cardActive = FALSE
    /\ cardHorseName = None
    /\ cardWinOdds = None
    /\ cardWinPop = None
    /\ stats = [detectedTracks |-> 0, detectedRaces |-> 0, detectedHeaders |-> 0,
                detectedRunnerLines |-> 0, ignoredLines |-> 0]
    /\ log = << >>

\* flushBlocks without the test for an empty runner list
flushBlocks_keepEmpty ==
    IF currentRaceNo # None
    THEN Append(blocks, Block(currentTrack, Val(currentRaceNo), currentRunners))
    ELSE blocks

\* flushBlocks that drops a block without a venue
flushBlocks_needsTrack ==
    IF currentRaceNo # None /\ Len(currentRunners) > 0 /\ currentTrack # None
    THEN Append(blocks, Block(currentTrack, Val(currentRaceNo), currentRunners))
    ELSE blocks

\* the blocks after flush's push (parser.ts:179-181)
flushBlocks ==
    IF currentRaceNo # None /\ Len(currentRunners) > 0
    THEN Append(blocks, Block(currentTrack, Val(currentRaceNo), currentRunners))
    ELSE blocks

\* flush that pushes the block and forgets to start a new runner list
flush_keepRunners ==
    /\ blocks' = flushBlocks
    /\ currentRunners' = currentRunners
    /\ pendingHorseName' = None
    /\ cardActive' = FALSE
    /\ cardHorseName' = None
    /\ cardWinOdds' = None
    /\ cardWinPop' = None

\* flush as it was before the frame layout was added (part_002:171-177): the
\* frame buffer is left as it is
flush_keepCard ==
    /\ blocks' = flushBlocks
    /\ currentRunners' = << >>
    /\ pendingHorseName' = None
    /\ UNCHANGED <<cardActive, cardHorseName, cardWinOdds, cardWinPop>>

\* flush (parser.ts:178-188)
flush ==
    /\ blocks' = flushBlocks
    /\ currentRunners' = << >>
    /\ pendingHorseName' = None
    /\ cardActive' = FALSE
    /\ cardHorseName' = None
    /\ cardWinOdds' = None
    /\ cardWinPop' = None

\* pushRunner that does not give a headerless block its race number
pushRunner_noRace(r) ==
    /\ currentRaceNo' = currentRaceNo
    /\ currentRunners' = Append(currentRunners, r)
    /\ stats' = [stats EXCEPT !.detectedRunnerLines = @ + 1]
    /\ log' = Append(log, [e |-> "runner", r |-> r, n |-> Len(input) + 1])

\* pushRunner (parser.ts:190-194); the caller says what becomes of stats'
\* other counters by leaving them alone
pushRunner(r) ==
    /\ currentRaceNo' = IF currentRaceNo = None THEN Some(1) ELSE currentRaceNo
    /\ currentRunners' = Append(currentRunners, r)
    /\ stats' = [stats EXCEPT !.detectedRunnerLines = @ + 1]
    /\ log' = Append(log, [e |-> "runner", r |-> r, n |-> Len(input) + 1])

Read(line) ==
    /\ pc = "lines"
    /\ Len(input) < MaxLines
    /\ input' = Append(input, line)
    /\ pc' = pc
    /\ UNCHANGED <<evalVars, sortVars, normVars, estVars, appVars>>

\* a header step that keeps the venue of the header before when the line
\* names none
HeaderLine_inheritsTrack ==
    \E line \in Lines :
        /\ Read(line)
        /\ detectHeader(line) # None
        /\ flush
        /\ currentTrack' = IF Val(detectHeader(line)).trackName = None
                           THEN currentTrack
                           ELSE Val(detectHeader(line)).trackName
        /\ currentRaceNo' = Some(Val(detectHeader(line)).raceNo)
        /\ stats' = [stats EXCEPT !.detectedHeaders = @ + 1]
        /\ log' = Append(log, [e |-> "header", h |-> Val(detectHeader(line)),
                                n |-> Len(input) + 1])

\* parser.ts:197-204
HeaderLine ==
    \E line \in Lines :
        /\ Read(line)
        /\ detectHeader(line) # None
        /\ flush
        /\ currentTrack' = Val(detectHeader(line)).trackName
        /\ currentRaceNo' = Some(Val(detectHeader(line)).raceNo)
        /\ stats' = [stats EXCEPT !.detectedHeaders = @ + 1]
        /\ log' = Append(log, [e |-> "header", h |-> Val(detectHeader(line)),
                                n |-> Len(input) + 1])

\* parser.ts:206-214
FrameStartLine ==
    \E line \in Lines :
        /\ Read(line)
        /\ detectHeader(line) = None
        /\ detectFrameStart(line)
        /\ cardActive' = TRUE
        /\ cardHorseName' = None
        /\ cardWinOdds' = None
        /\ cardWinPop' = None
        /\ pendingHorseName' = None
        /\ UNCHANGED <<blocks, currentTrack, currentRaceNo, currentRunners,
                       stats, log>>

\* the noise branch that forgets the pending name
NoiseLine_dropsPending ==
    \E line \in Lines :
        /\ Read(line)
        /\ detectHeader(line) = None
        /\ ~detectFrameStart(line)
        /\ isNoiseLine(line)
        /\ pendingHorseName' = None
        /\ UNCHANGED <<blocks, currentTrack, currentRaceNo, currentRunners,
                       cardActive, cardHorseName,
                       cardWinOdds, cardWinPop, stats, log>>

\* parser.ts:216
NoiseLine ==
    \E line \in Lines :
        /\ Read(line)
        /\ detectHeader(line) = None
        /\ ~detectFrameStart(line)
        /\ isNoiseLine(line)
        /\ UNCHANGED <<blocks, currentTrack, currentRaceNo, currentRunners,
                       pendingHorseName, cardActive, cardHorseName,
                       cardWinOdds, cardWinPop, stats, log>>

\* a line that reaches parser.ts:218
IsData(line) ==
    /\ detectHeader(line) = None
    /\ ~detectFrameStart(line)
    /\ ~isNoiseLine(line)

\* parser.ts:219-255, frame capture: the name
CardNameLine ==
    \E line \in Lines :
        /\ Read(line)
        /\ IsData(line)
        /\ cardActive
        /\ cardHorseName = None /\ looksLikeHorseNameLine(line)
        /\ cardHorseName' = line
        /\ UNCHANGED <<blocks, currentTrack, currentRaceNo, currentRunners,
                       pendingHorseName, cardActive, cardWinOdds, cardWinPop,
                       stats, log>>

\* parser.ts:225-232, frame capture: the odds
CardOddsLine ==
    \E line \in Lines :
        /\ Read(line)
        /\ IsData(line)
        /\ cardActive
        /\ ~(cardHorseName = None /\ looksLikeHorseNameLine(line))
        /\ cardWinOdds = None /\ parseOddsOnlyLine(line) # None
        /\ cardWinOdds' = parseOddsOnlyLine(line)
        /\ UNCHANGED <<blocks, currentTrack, currentRaceNo, currentRunners,
                       pendingHorseName, cardActive, cardHorseName, cardWinPop,
                       stats, log>>

\* parser.ts:234-254, frame capture: the popularity, and the runner once the
\* three fields are there
CardRestLine ==
    \E line \in Lines :
        /\ Read(line)
        /\ IsData(line)
        /\ cardActive
        /\ ~(cardHorseName = None /\ looksLikeHorseNameLine(line))
        /\ ~(cardWinOdds = None /\ parseOddsOnlyLine(line) # None)
        /\ LET pop == IF cardWinPop = None
                      THEN parsePopularityOnlyLine(line) ELSE cardWinPop
           IN  IF cardHorseName # None /\ cardWinOdds # None /\ pop # None
               THEN /\ pushRunner(Runner(cardHorseName, None, pop, cardWinOdds,
                                         None, None, None))
                    /\ cardActive' = FALSE
                    /\ cardHorseName' = None
                    /\ cardWinOdds' = None
                    /\ cardWinPop' = None
                    /\ UNCHANGED <<blocks, currentTrack, pendingHorseName>>
               ELSE /\ cardWinPop' = pop
                    /\ UNCHANGED <<blocks, currentTrack, currentRaceNo,
                                   currentRunners, pendingHorseName, cardActive,
                                   cardHorseName, cardWinOdds, stats, log>>

\* parser.ts:257-263
SingleLine ==
    \E line \in Lines :
        /\ Read(line)
        /\ IsData(line)
        /\ ~cardActive
        /\ parseRunnerLineSingle(line) # None
        /\ pushRunner(Val(parseRunnerLineSingle(line)))
        /\ pendingHorseName' = None
        /\ UNCHANGED <<blocks, currentTrack, cardActive, cardHorseName,
                       cardWinOdds, cardWinPop>>

\* parser.ts:265-279
LegacyLine ==
    \E line \in Lines :
        /\ Read(line)
        /\ IsData(line)
        /\ ~cardActive
        /\ parseRunnerLineSingle(line) = None
        /\ pendingHorseName # None /\ parseOddsPopAtLineEnd(line) # None
        /\ LET op == Val(parseOddsPopAtLineEnd(line))
           IN  pushRunner(Runner(pendingHorseName, op.jockeyName,
                                 Some(op.winPopularity), Some(op.winOdds),
                                 None, None, None))
        /\ pendingHorseName' = None
        /\ UNCHANGED <<blocks, currentTrack, cardActive, cardHorseName,
                       cardWinOdds, cardWinPop>>

\* a line that reaches parser.ts:281
IsUnmatched(line) ==
    /\ IsData(line)
    /\ ~cardActive
    /\ parseRunnerLineSingle(line) = None
    /\ ~(pendingHorseName # None /\ parseOddsPopAtLineEnd(line) # None)

\* parser.ts:281-284
NameLine ==
    \E line \in Lines :
        /\ Read(line)
        /\ IsUnmatched(line)
        /\ looksLikeHorseNameLine(line)
        /\ pendingHorseName' = line
        /\ UNCHANGED <<blocks, currentTrack, currentRaceNo, currentRunners,
                       cardActive, cardHorseName, cardWinOdds, cardWinPop,
                       stats, log>>

\* parser.ts:286
IgnoredLine ==
    \E line \in Lines :
        /\ Read(line)
        /\ IsUnmatched(line)
        /\ ~looksLikeHorseNameLine(line)
        /\ stats' = [stats EXCEPT !.ignoredLines = @ + 1]
        /\ UNCHANGED <<blocks, currentTrack, currentRaceNo, currentRunners,
                       pendingHorseName, cardActive, cardHorseName,
                       cardWinOdds, cardWinPop, log>>

\* the tracks of the returned blocks, for stats.detectedTracks
TracksOf(bs) == {Val(bs[i].trackName) : i \in {j \in 1..Len(bs) : bs[j].trackName # None}}

\* parser.ts:289-294: the end of the text
Return ==
    /\ pc = "lines"
    /\ pc' = "done"
    /\ flush
    /\ stats' = [stats EXCEPT !.detectedRaces = Len(flushBlocks),
                              !.detectedTracks = Cardinality(TracksOf(flushBlocks))]
    /\ UNCHANGED <<input, currentTrack, currentRaceNo, log>>
    /\ UNCHANGED <<evalVars, sortVars, normVars, estVars, appVars>>

ParserNext ==
    \/ HeaderLine
    \/ FrameStartLine
    \/ NoiseLine
    \/ CardNameLine
    \/ CardOddsLine
    \/ CardRestLine
    \/ SingleLine
    \/ LegacyLine
    \/ NameLine
    \/ IgnoredLine
    \/ Return


(***************************************************************************)
(* The scorers.  evaluate is src/unnamed/part_001 (popularity veto, place  *)
(* low estimated from win odds); evaluate_ts is src/src/evaluator.ts       *)
(* (popularity veto, no estimate).                                         *)
(***************************************************************************)
MID_POP_MIN == 4
MID_POP_MAX == 8
A_FLOOR == 22
S_FLOOR == 30

\* The win odds (in tenths) at which the double 10 * (1.2 + winOdds * 0.25)
\* is just below k + 0.5 although the real number is k + 0.5, so that
\* Math.round gives k: 0.6 -> 13.499999999999998, 1.4 -> 15.499999999999998,
\* 4.6 -> 23.499999999999996, 6.6 -> 28.499999999999996.  At every other
\* odds with one decimal the double rounds as the real number does.
RoundsBelowHalf == {6, 14, 46, 66}

\* part_001:10-15.  raw is kept in fortieths: 40 * (1.2 + winOdds * 0.25)
\* for winOdds = w / 10 is 48 + w; Math.round rounds a half up.
estimatePlaceLowFromWinOdds(winOdds) ==
    IF winOdds = None THEN None
    ELSE LET raw == 48 + Val(winOdds)
             clamped == Max({48, Min({240, raw})})
         IN  Some(IF Val(winOdds) \in RoundsBelowHalf
                  THEN clamped \div 4
                  ELSE (clamped + 2) \div 4)

\* the display texts: "" , "a-b" with its dash, "suitei lo+", and "lo"
EmptyText == [kind |-> "empty", a |-> 0, b |-> 0, dash |-> ""]
EstimatedText(lo) == [kind |-> "estimated", a |-> lo, b |-> 0, dash |-> ""]
NumberText(lo) == [kind |-> "number", a |-> lo, b |-> 0, dash |-> ""]
\* String.replaceAll("-", en dash) on a range text
WithEnDash(t) == [t EXCEPT !.dash = IF @ = "-" THEN "en-dash" ELSE @]

\* placeText that shows the pasted range as it was pasted
placeText_keepsHyphen(best, lo, estimated) ==
    IF ~estimated /\ best.placeRangeRaw # None
    THEN Val(best.placeRangeRaw)
    ELSE EstimatedText(lo)

\* part_001:17-21
placeText(best, lo, estimated) ==
    IF ~estimated /\ best.placeRangeRaw # None
    THEN WithEnDash(Val(best.placeRangeRaw))
    ELSE EstimatedText(lo)

\* the tags: "nakaana(N ninki)", "myoumi ari", "aite yowame", "you koushin"
MidTag(winPopularity) == [t |-> "mid", pop |-> winPopularity]
ValueTag == [t |-> "value", pop |-> None]
WeakFieldTag == [t |-> "weak-field", pop |-> None]
RefreshTag == [t |-> "refresh", pop |-> None]

\* the reasons of a C card
StrongFieldReason == "strong field: two runners of popularity 1-2"
NoCandidateReason == "no candidate of popularity 4-8"

\* the horse name of a card whose pick has none, and of a C card ("")
UnknownHorseName == <<Word("(name unknown)")>>
NoHorseName == << >>

PickCard(rank, b, horseName, jockeyName, pop, winOdds, txt, placeLow, tags, reason) ==
    [rank |-> rank, trackName |-> b.trackName, raceNo |-> b.raceNo,
     horseName |-> horseName, jockeyName |-> jockeyName,
     winPopularity |-> pop, winOdds |-> winOdds, placeRangeText |-> txt,
     placeLow |-> placeLow, tags |-> tags, reason |-> reason]

\* part_001:29-37 and 47-55
CCard(b, reason) ==
    PickCard("C", b, NoHorseName, None, None, None, EmptyText, None, << >>,
             Some(reason))

\* top12 that counts the third favourite as well
top12_top3(b) ==
    Cardinality({i \in 1..Len(b.runners) :
                    b.runners[i].winPopularity \in {Some(1), Some(2), Some(3)}})

\* part_001:27
top12(b) ==
    Cardinality({i \in 1..Len(b.runners) :
                    b.runners[i].winPopularity \in {Some(1), Some(2)}})

\* a candidate test that takes a runner of unknown popularity for one of
\* the mid tier
IsCandidate_unknownToo(r) ==
    LET p == OrElse(r.winPopularity, MID_POP_MIN)
    IN  p >= MID_POP_MIN /\ p <= MID_POP_MAX

\* a candidate test that takes a runner of any popularity
IsCandidate_anyPopularity(r) == r.winPopularity # None

\* part_001:41-44, as the positions of the candidates in block.runners
IsCandidate(r) ==
    LET p == OrElse(r.winPopularity, 99)
    IN  p >= MID_POP_MIN /\ p <= MID_POP_MAX

candidates(b) ==
    SelectSeq([i \in 1..Len(b.runners) |-> i], LAMBDA i : IsCandidate(b.runners[i]))

\* part_001:61-63
Scored(b, i) ==
    LET r == b.runners[i]
    IN  [i |-> i,
         est |-> r.placeLow = None,
         lo |-> IF r.placeLow # None THEN Val(r.placeLow)
                ELSE OrElse(estimatePlaceLowFromWinOdds(r.winOdds), -1)]

\* the comparator without its tie-break
compareScored_noTieBreak(b, x, y) == y.lo - x.lo

\* the comparator with the place low ascending
compareScored_ascending(b, x, y) ==
    IF x.lo # y.lo THEN x.lo - y.lo
    ELSE OrElse(b.runners[x.i].winPopularity, 99)
         - OrElse(b.runners[y.i].winPopularity, 99)

\* part_001:65-69, the comparator: negative when x sorts before y
compareScored(b, x, y) ==
    IF x.lo # y.lo THEN y.lo - x.lo
    ELSE OrElse(b.runners[x.i].winPopularity, 99)
         - OrElse(b.runners[y.i].winPopularity, 99)

\* Array.prototype.sort is stable: x goes behind every element it does not
\* sort before
RECURSIVE InsertScored(_, _, _)
InsertScored(b, sorted, x) ==
    IF sorted = << >> THEN <<x>>
    ELSE IF compareScored(b, x, Head(sorted)) < 0 THEN <<x>> \o sorted
    ELSE <<Head(sorted)>> \o InsertScored(b, Tail(sorted), x)

RECURSIVE SortScored(_, _)
SortScored(b, s) ==
    IF s = << >> THEN << >>
    ELSE InsertScored(b, SortScored(b, SubSeq(s, 1, Len(s) - 1)), s[Len(s)])

\* part_001:59-69
scored(b) ==
    LET c == candidates(b)
    IN  SortScored(b, [k \in 1..Len(c) |-> Scored(b, c[k])])

\* the thresholds taken as strict
rankOf_strict(lo) ==
    IF lo > S_FLOOR THEN "S" ELSE IF lo > A_FLOOR THEN "A" ELSE "B"

\* part_001:76-78
rankOf(lo) ==
    IF lo >= S_FLOOR THEN "S" ELSE IF lo >= A_FLOOR THEN "A" ELSE "B"

\* the tags without the cut to three
shownTags_all(best, lo, strong, estimated) ==
    <<MidTag(best.winPopularity)>>
    \o (IF lo >= A_FLOOR THEN <<ValueTag>> ELSE << >>)
    \o (IF strong <= 1 THEN <<WeakFieldTag>> ELSE << >>)
    \o (IF estimated THEN <<RefreshTag>> ELSE << >>)

\* part_001:81-93 and 105
shownTags(best, lo, strong, estimated) ==
    LET tags == <<MidTag(best.winPopularity)>>
                \o (IF lo >= A_FLOOR THEN <<ValueTag>> ELSE << >>)
                \o (IF strong <= 1 THEN <<WeakFieldTag>> ELSE << >>)
                \o (IF estimated THEN <<RefreshTag>> ELSE << >>)
        Has(t) == \E k \in 1..Len(tags) : tags[k] = t
        shown3 == <<tags[1]>>
                  \o (IF Has(ValueTag) THEN <<ValueTag>> ELSE << >>)
                  \o (IF Has(WeakFieldTag) THEN <<WeakFieldTag>> ELSE << >>)
        shown == IF Len(shown3) < 3 /\ Has(RefreshTag)
                 THEN Append(shown3, RefreshTag) ELSE shown3
    IN  SubSeq(shown, 1, Min({3, Len(shown)}))

\* part_001:23-107
evaluate(b) ==
    IF top12(b) >= 2 THEN CCard(b, StrongFieldReason)
    ELSE IF candidates(b) = << >> THEN CCard(b, NoCandidateReason)
    ELSE LET first == scored(b)[1]
             best == b.runners[first.i]
             lo == first.lo
             estimated == first.est
         IN  PickCard(rankOf(lo), b,
                      IF best.horseName = None THEN UnknownHorseName
                      ELSE best.horseName,
                      best.jockeyName, best.winPopularity, best.winOdds,
                      placeText(best, lo, estimated), Some(lo),
                      shownTags(best, lo, top12(b), estimated), None)

\* the position in block.runners of the runner evaluate picks (part_001:71)
bestIndex(b) == scored(b)[1].i

\* evaluator.ts:45-50 sorts the candidates on placeLow ?? -1, with the same
\* comparator
Scored_ts(b, i) ==
    [i |-> i, est |-> FALSE, lo |-> OrElse(b.runners[i].placeLow, -1)]

\* evaluator.ts:9-76
evaluate_ts(b) ==
    IF top12(b) >= 2 THEN CCard(b, StrongFieldReason)
    ELSE IF candidates(b) = << >> THEN CCard(b, NoCandidateReason)
    ELSE LET c == candidates(b)
             best == b.runners[SortScored(b, [k \in 1..Len(c) |-> Scored_ts(b, c[k])])[1].i]
             lo == OrElse(best.placeLow, 0)
             tags == <<MidTag(best.winPopularity)>>
                     \o (IF lo >= A_FLOOR THEN <<ValueTag>> ELSE << >>)
                     \o (IF top12(b) <= 1 THEN <<WeakFieldTag>> ELSE << >>)
         IN  PickCard(rankOf(lo), b,
                      IF best.horseName = None THEN UnknownHorseName
                      ELSE best.horseName,
                      best.jockeyName, best.winPopularity, best.winOdds,
                      IF best.placeRangeRaw # None
                      THEN WithEnDash(Val(best.placeRangeRaw))
                      ELSE NumberText(lo),
                      best.placeLow,
                      SubSeq(tags, 1, Min({3, Len(tags)})), None)

\* part_000:12, in tenths
STRONG_ODDS == 35

\* the reason of a C card of part_000
StrongOddsReason == "strong field: two runners at win odds 3.5 or less"

\* a count that leaves out the runners at exactly STRONG_ODDS
strongCount_strict(b) ==
    Cardinality({i \in 1..Len(b.runners) :
                    /\ b.runners[i].winOdds # None
                    /\ Val(b.runners[i].winOdds) < STRONG_ODDS})

\* part_000:31
strongCount(b) ==
    Cardinality({i \in 1..Len(b.runners) :
                    /\ b.runners[i].winOdds # None
                    /\ Val(b.runners[i].winOdds) <= STRONG_ODDS})

\* the tags with the refresh tag pushed before the weak-field tag
tags_odds_refreshFirst(best, lo, strong, estimated) ==
    LET tags == <<MidTag(best.winPopularity)>>
                \o (IF lo >= A_FLOOR THEN <<ValueTag>> ELSE << >>)
                \o (IF estimated THEN <<RefreshTag>> ELSE << >>)
                \o (IF strong <= 1 THEN <<WeakFieldTag>> ELSE << >>)
    IN  SubSeq(tags, 1, Min({3, Len(tags)}))

\* part_000:83-87 and 99
tags_odds(best, lo, strong, estimated) ==
    LET t1 == <<MidTag(best.winPopularity)>>
              \o (IF lo >= A_FLOOR THEN <<ValueTag>> ELSE << >>)
              \o (IF strong <= 1 THEN <<WeakFieldTag>> ELSE << >>)
        tags == IF Len(t1) < 3 /\ estimated THEN Append(t1, RefreshTag) ELSE t1
    IN  SubSeq(tags, 1, Min({3, Len(tags)}))

\* part_000:27-101, the scorer with the odds veto; candidates, scored,
\* rank and placeText are those of part_001, line for line
evaluate_odds(b) ==
    IF strongCount(b) >= 2 THEN CCard(b, StrongOddsReason)
    ELSE IF candidates(b) = << >> THEN CCard(b, NoCandidateReason)
    ELSE LET first == scored(b)[1]
             best == b.runners[first.i]
             lo == first.lo
             estimated == first.est
         IN  PickCard(rankOf(lo), b,
                      IF best.horseName = None THEN UnknownHorseName
                      ELSE best.horseName,
                      best.jockeyName, best.winPopularity, best.winOdds,
                      placeText(best, lo, estimated), Some(lo),
                      tags_odds(best, lo, strongCount(b), estimated), None)

(***************************************************************************)
(* The blocks the scorers are given: up to MaxRunners runners, in any      *)
(* order and with repetition, each one of RunnerPool.                      *)
(***************************************************************************)
MaxRunners == 3

Named(s) == <<Word(s)>>
Measured(name, pop, winOdds, lo, hi) ==
    Runner(Named(name), None, pop, winOdds, Some(lo), Some(hi),
           Some(RangeText(lo, hi, "-")))
Unmeasured(name, pop, winOdds) ==
    Runner(Named(name), None, pop, winOdds, None, None, None)

RunnerPool ==
    { Unmeasured("Fav1", Some(1), Some(21)),
      Measured("Fav2", Some(2), Some(36), 12, 15),
      Measured("Third", Some(3), Some(30), 35, 50),
      Unmeasured("Mid4", Some(4), Some(72)),            \* estimate 3.0
      Measured("Mid5", Some(5), None, 25, 40),
      Unmeasured("Mid5e", Some(5), Some(40)),           \* estimate 2.2
      Measured("Mid6", Some(6), Some(40), 21, 30),
      Measured("Mid7", Some(7), Some(150), 25, 38),
      Unmeasured("Mid7n", Some(7), None),               \* nothing known
      Measured("Mid8", Some(8), None, 30, 45),
      Measured("Out9", Some(9), Some(300), 40, 60),
      Measured("NoPop", None, None, 50, 70) }

\* the place lows a re-pasted range can raise a runner's place low to
RaisedPlaceLows == {22, 29, 30, 35}

SeqsUpTo(S, n) == UNION {[1..k -> S] : k \in 0..n}

EvalInit ==
    /\ block \in {Block(Some("Nakayama"), 7, rs) : rs \in SeqsUpTo(RunnerPool, MaxRunners)}
    /\ scorer = ""
    /\ card = None

IdleEval == block = None /\ scorer = "" /\ card = None

\* evaluate(block) of part_001
Evaluate ==
    /\ scorer = ""
    /\ scorer' = "part_001"
    /\ card' = Some(evaluate(block))
    /\ UNCHANGED <<block, parserVars, sortVars, normVars, estVars, appVars>>

\* evaluate(block) of evaluator.ts
Evaluate_ts ==
    /\ scorer = ""
    /\ scorer' = "evaluator.ts"
    /\ card' = Some(evaluate_ts(block))
    /\ UNCHANGED <<block, parserVars, sortVars, normVars, estVars, appVars>>

\* evaluate(block) of part_000
Evaluate_odds ==
    /\ scorer = ""
    /\ scorer' = "part_000"
    /\ card' = Some(evaluate_odds(block))
    /\ UNCHANGED <<block, parserVars, sortVars, normVars, estVars, appVars>>

\* block with the place low of runner i raised to v, its pasted range with it
WithPlaceLow(b, i, v) ==
    [b EXCEPT !.runners[i].placeLow = Some(v),
              !.runners[i].placeRangeRaw = Some([Val(@) EXCEPT !.a = v])]

\* the same race scored again by part_001 after the measured place low of
\* its pick went up and nothing else changed
EvaluateRaised ==
    /\ scorer = "part_001"
    /\ Val(card).rank # "C"
    /\ block.runners[bestIndex(block)].placeLow # None
    /\ \E v \in RaisedPlaceLows :
          /\ v > Val(block.runners[bestIndex(block)].placeLow)
          /\ block' = WithPlaceLow(block, bestIndex(block), v)
          /\ card' = Some(evaluate(WithPlaceLow(block, bestIndex(block), v)))
    /\ UNCHANGED <<scorer, parserVars, sortVars, normVars, estVars, appVars>>

EvalNext == Evaluate \/ Evaluate_ts \/ Evaluate_odds \/ EvaluateRaised

(***************************************************************************)
(* recommendedSorted (evaluator.ts:82-96, part_001:113-127).               *)
(***************************************************************************)
\* evaluator.ts:83
key(r) == IF r = "S" THEN 0 ELSE IF r = "A" THEN 1 ELSE IF r = "B" THEN 2 ELSE 3

\* The characters of a venue name, as code points.  localeCompare orders
\* them by the collation of the locale; the model takes the code point order.
TrackChars(t) ==
    CASE t = "Nakayama" -> <<20013, 23665>>
      [] t = "Tokyo" -> <<26481, 20140>>
      [] t = "Kyoto" -> <<20140, 37117>>
      [] OTHER -> <<19981, 26126>>      \* fumei, "unknown"

\* `${raceNo}`: the decimal digits of a race number, as code points
DigitChars(n) == IF n < 10 THEN <<48 + n>> ELSE <<48 + (n \div 10), 48 + (n % 10)>>

\* `${c.trackName ?? "fumei"}${c.raceNo}` (evaluator.ts:92-93)
raceText(c) ==
    (IF c.trackName = None THEN TrackChars("") ELSE TrackChars(Val(c.trackName)))
    \o DigitChars(c.raceNo)

\* String.localeCompare: negative, zero or positive, character by character
RECURSIVE localeCompare(_, _)
localeCompare(x, y) ==
    IF x = << >> /\ y = << >> THEN 0
    ELSE IF x = << >> THEN -1
    ELSE IF y = << >> THEN 1
    ELSE IF Head(x) # Head(y) THEN Head(x) - Head(y)
    ELSE localeCompare(Tail(x), Tail(y))

\* the comparator with the place low ascending
compareCards_ascending(x, y) ==
    IF key(x.rank) # key(y.rank) THEN key(x.rank) - key(y.rank)
    ELSE IF OrElse(x.placeLow, -1) # OrElse(y.placeLow, -1)
    THEN OrElse(x.placeLow, -1) - OrElse(y.placeLow, -1)
    ELSE localeCompare(raceText(x), raceText(y))

\* evaluator.ts:86-95
compareCards(x, y) ==
    IF key(x.rank) # key(y.rank) THEN key(x.rank) - key(y.rank)
    ELSE IF OrElse(x.placeLow, -1) # OrElse(y.placeLow, -1)
    THEN OrElse(y.placeLow, -1) - OrElse(x.placeLow, -1)
    ELSE localeCompare(raceText(x), raceText(y))

RECURSIVE InsertCard(_, _)
InsertCard(sorted, x) ==
    IF sorted = << >> THEN <<x>>
    ELSE IF compareCards(x, Head(sorted)) < 0 THEN <<x>> \o sorted
    ELSE <<Head(sorted)>> \o InsertCard(Tail(sorted), x)

\* Array.prototype.sort with compareCards (stable)
RECURSIVE SortCards(_)
SortCards(s) ==
    IF s = << >> THEN << >>
    ELSE InsertCard(SortCards(SubSeq(s, 1, Len(s) - 1)), s[Len(s)])

\* evaluator.ts:84-95: what the call leaves in the array it was given
\* (filter copies) and what it returns
recommendedSorted(cs) ==
    [cards |-> cs,
     result |-> SortCards(SelectSeq(cs, LAMBDA c : c.rank = "S" \/ c.rank = "A"))]

MaxCards == 3

\* a card as evaluator.ts:64-75 builds it for a pick with a pasted range
PickedCard(track, raceNo, lo) ==
    PickCard(rankOf(lo), Block(track, raceNo, << >>), Named("Horse"), None,
             Some(5), None, RangeText(lo, lo + 10, "en-dash"), Some(lo),
             <<MidTag(Some(5))>> \o (IF lo >= A_FLOOR THEN <<ValueTag>> ELSE << >>)
                 \o <<WeakFieldTag>>,
             None)

CardPool ==
    { PickedCard(Some("Nakayama"), 7, 35),
      PickedCard(Some("Tokyo"), 1, 30),
      PickedCard(Some("Tokyo"), 10, 30),
      PickedCard(Some("Tokyo"), 2, 30),
      PickedCard(None, 3, 25),
      PickedCard(Some("Nakayama"), 11, 25),
      PickedCard(Some("Tokyo"), 12, 22),
      PickedCard(Some("Tokyo"), 12, 29),
      PickedCard(Some("Nakayama"), 1, 21),
      CCard(Block(Some("Tokyo"), 5, << >>), NoCandidateReason) }

SortInit ==
    /\ cards \in SeqsUpTo(CardPool, MaxCards)
    /\ sortPc = "called"
    /\ recommended = << >>

IdleSort == cards = << >> /\ sortPc = "idle" /\ recommended = << >>

RecommendedSorted ==
    /\ sortPc = "called"
    /\ sortPc' = "returned"
    /\ cards' = recommendedSorted(cards).cards
    /\ recommended' = recommendedSorted(cards).result
    /\ UNCHANGED <<parserVars, evalVars, normVars, estVars, appVars>>

SortNext == RecommendedSorted

(***************************************************************************)
(* normalize (parser.ts:13-21) over texts of up to MaxTextLen characters.  *)
(* A character is named by its code point, or written as itself.           *)
(***************************************************************************)
MaxTextLen == 2

WaveDash == "U+301C"
EnDash == "U+2013"
HorizontalBar == "U+2015"
EmDash == "U+2014"
IdeographicSpace == "U+3000"

Alphabet == {WaveDash, EnDash, HorizontalBar, EmDash, IdeographicSpace,
             "U+FF17", "U+FF32", "U+FF0D", "U+5C71", "7", "R", "-", " "}

\* String.normalize("NFKC") of one character: the full-width forms and the
\* ideographic space have compatibility mappings, the dashes have none
NFKC(c) ==
    CASE c = "U+FF17" -> "7"        \* full-width digit seven
      [] c = "U+FF32" -> "R"        \* full-width capital R
      [] c = "U+FF0D" -> "-"        \* full-width hyphen-minus
      [] c = IdeographicSpace -> " "
      [] OTHER -> c

replaceAll(s, from, to) == [i \in 1..Len(s) |-> IF s[i] = from THEN to ELSE s[i]]

\* normalize with the em dash turned into an en dash
normalize_emToEn(s) ==
    LET nfkc == [i \in 1..Len(s) |-> NFKC(s[i])]
    IN  replaceAll(replaceAll(replaceAll(replaceAll(replaceAll(nfkc,
            WaveDash, "-"), EnDash, "-"), HorizontalBar, "-"), EmDash, EnDash),
            IdeographicSpace, " ")

\* parser.ts:13-21
normalize(s) ==
    LET nfkc == [i \in 1..Len(s) |-> NFKC(s[i])]
    IN  replaceAll(replaceAll(replaceAll(replaceAll(replaceAll(nfkc,
            WaveDash, "-"), EnDash, "-"), HorizontalBar, "-"), EmDash, "-"),
            IdeographicSpace, " ")

NormInit ==
    /\ text \in SeqsUpTo(Alphabet, MaxTextLen)
    /\ normCalls = 0
    /\ normalized = << >>

IdleNorm == text = << >> /\ normCalls = 0 /\ normalized = << >>

\* normalize(text)
Normalize ==
    /\ normCalls = 0
    /\ normCalls' = 1
    /\ normalized' = <<normalize(text)>>
    /\ UNCHANGED <<text, parserVars, evalVars, sortVars, estVars, appVars>>

\* normalize of the text the first call returned
NormalizeAgain ==
    /\ normCalls = 1
    /\ normCalls' = 2
    /\ normalized' = Append(normalized, normalize(normalized[1]))
    /\ UNCHANGED <<text, parserVars, evalVars, sortVars, estVars, appVars>>

NormNext == Normalize \/ NormalizeAgain

(***************************************************************************)
(* estimatePlaceLowFromWinOdds over the win odds 0.0 .. MaxWinOdds / 10.   *)
(***************************************************************************)
MaxWinOdds == 240

EstInit ==
    /\ estArg \in {None} \cup {Some(w) : w \in 0..MaxWinOdds}
    /\ estPc = "called"
    /\ estResult = None

IdleEst == estArg = None /\ estPc = "idle" /\ estResult = None

Estimate ==
    /\ estPc = "called"
    /\ estPc' = "returned"
    /\ estResult' = estimatePlaceLowFromWinOdds(estArg)
    /\ UNCHANGED <<estArg, parserVars, evalVars, sortVars, normVars, appVars>>

EstNext == Estimate

(***************************************************************************)
(* App (evaluator.ts:98-211 and 423-492): the pick list, the update mode   *)
(* and the correction of one card from pasted odds.                        *)
(***************************************************************************)
MaxAppBlocks == 2

\* evaluator.ts:78-80
evaluateAll(bs) == [k \in 1..Len(bs) |-> evaluate_ts(bs[k])]

\* Blocks as parseAll returns them: a runner with a place range comes from
\* a line of the range shape and has no name (parser.ts:141), a runner with
\* a name has win odds and no place range (parser.ts:125, 243-248, 269-275).
Ranged(pop, winOdds, lo, hi) ==
    Runner(None, None, Some(pop), winOdds, Some(lo), Some(hi),
           Some(RangeText(lo, hi, "-")))

AppBlocks ==
    { Block(Some("Nakayama"), 7, <<Ranged(6, None, 30, 45)>>),
      Block(None, 3, <<Ranged(4, Some(72), 22, 34),
                       Unmeasured("Fav1", Some(1), Some(21))>>),
      Block(Some("Tokyo"), 12, <<Unmeasured("Fav1", Some(1), Some(21)),
                                 Ranged(2, None, 12, 15),
                                 Ranged(6, None, 30, 45)>>) }

\* A pasted text is its non-empty trimmed lines; of a line the model keeps
\* the horse name it holds (None: none), its first "a-b" and its first
\* win-labelled number.
PasteLine(name, range, win) == [name |-> name, range |-> range, win |-> win]
BlankText == << >>

PasteTexts ==
    { BlankText,
      <<PasteLine(UnknownHorseName, Some(<<22, 34>>), None)>>,
      <<PasteLine(None, None, Some(45)), PasteLine(None, Some(<<30, 45>>), None)>>,
      <<PasteLine(UnknownHorseName, None, None), PasteLine(None, Some(<<20, 28>>), None)>>,
      <<PasteLine(None, Some(<<20, 28>>), None)>>,
      <<PasteLine(None, None, None)>> }

\* evaluator.ts:423-425: the three parts of the key, "_" between them
getCardKey(c) ==
    <<IF c.trackName = None THEN "fumei" ELSE Val(c.trackName), c.raceNo, c.horseName>>

\* rankFromPlaceLow with the thresholds taken as strict
rankFromPlaceLow_strict(placeLow) ==
    IF placeLow > 30 THEN "S" ELSE IF placeLow > 22 THEN "A" ELSE "B"

\* evaluator.ts:427-431
rankFromPlaceLow(placeLow) ==
    IF placeLow >= 30 THEN "S" ELSE IF placeLow >= 22 THEN "A" ELSE "B"

\* Array.find and Array.findIndex: the first of the positions, 0 if none
FirstOf(positions) == IF positions = {} THEN 0 ELSE Min(positions)

IsMidTag(t) == t.t = "mid"
IsValueTag(t) == t = ValueTag
IsWeakTag(t) == t = WeakFieldTag

\* an update that leaves the tags as they were
updateTags_asIs(prevTags, winPopularity, placeLow) == prevTags

\* evaluator.ts:433-460
updateTags(prevTags, winPopularity, placeLow) ==
    LET mid == MidTag(winPopularity)
        hasMid == \E i \in 1..Len(prevTags) : IsMidTag(prevTags[i])
        tags1 == IF ~hasMid THEN <<mid>> \o prevTags
                 ELSE [i \in 1..Len(prevTags) |->
                          IF IsMidTag(prevTags[i]) THEN mid ELSE prevTags[i]]
        hasValue == \E i \in 1..Len(tags1) : IsValueTag(tags1[i])
        idx == FirstOf({i \in 1..Len(tags1) : IsValueTag(tags1[i])})
        tags2 == IF placeLow >= 22
                 THEN (IF ~hasValue THEN Append(tags1, ValueTag) ELSE tags1)
                 ELSE (IF idx > 0
                       THEN SubSeq(tags1, 1, idx - 1) \o SubSeq(tags1, idx + 1, Len(tags1))
                       ELSE tags1)
        midAt == FirstOf({i \in 1..Len(tags2) : IsMidTag(tags2[i])})
        ordered == (IF midAt > 0 THEN <<tags2[midAt]>> ELSE << >>)
                   \o (IF FirstOf({i \in 1..Len(tags2) : IsValueTag(tags2[i])}) > 0 THEN <<ValueTag>> ELSE << >>)
                   \o (IF FirstOf({i \in 1..Len(tags2) : IsWeakTag(tags2[i])}) > 0 THEN <<WeakFieldTag>> ELSE << >>)
    IN  SubSeq(ordered, 1, Min({3, Len(ordered)}))

\* String.includes: every text includes the empty one
Includes(l, horseName) == horseName = NoHorseName \/ l.name = horseName

\* evaluator.ts:462-492.  The target is the first line that includes the
\* horse name, or else the whole text; the range and the win odds are the
\* first ones found in the target.
extractOddsFromPastedText(txt, horseName) ==
    LET at == FirstOf({i \in 1..Len(txt) : Includes(txt[i], horseName)})
        rangeAt == FirstOf({i \in 1..Len(txt) : txt[i].range # None})
        winAt == FirstOf({i \in 1..Len(txt) : txt[i].win # None})
        m == IF at > 0 THEN txt[at].range
             ELSE IF rangeAt > 0 THEN txt[rangeAt].range ELSE None
        wo == IF at > 0 THEN txt[at].win
              ELSE IF winAt > 0 THEN txt[winAt].win ELSE None
    IN  [placeLow |-> IF m = None THEN None ELSE Some(Val(m)[1]),
         placeHigh |-> IF m = None THEN None ELSE Some(Val(m)[2]),
         placeRangeRaw |-> IF m = None THEN None
                           ELSE Some(RangeText(Val(m)[1], Val(m)[2], "-")),
         winOdds |-> wo]

NoOp == [op |-> "", result |-> ""]

AppInit ==
    /\ analyzed = None
    /\ mode = "main"
    /\ updateTargets = << >>
    /\ updateInputs = << >>
    /\ lastOp = NoOp

IdleApp == AppInit

\* what the last handler was, when it was applyUpdate, and how it ended
Op(op, result) == [op |-> op, result |-> result]

\* the keys of the cards of a list
KeysOf(cs) == {getCardKey(cs[i]) : i \in 1..Len(cs)}

\* updateInputs[ckey] ?? ""
InputOf(ckey) == IF ckey \in DOMAIN updateInputs THEN updateInputs[ckey] ELSE BlankText

\* { ...prev, [ckey]: text }
WithInput(prev, ckey, txt) ==
    [k \in (DOMAIN prev) \cup {ckey} |-> IF k = ckey THEN txt ELSE prev[k]]

\* evaluator.ts:142-151
analyze ==
    \E bs \in SeqsUpTo(AppBlocks, MaxAppBlocks) :
        /\ analyzed' = Some(evaluateAll(bs))
        /\ mode' = "main"
        /\ updateTargets' = << >>
        /\ updateInputs' = << >>
        /\ lastOp' = NoOp
        /\ UNCHANGED <<parserVars, evalVars, sortVars, normVars, estVars>>

\* evaluator.ts:246-252, the clear button
clear ==
    /\ analyzed' = None
    /\ mode' = "main"
    /\ updateTargets' = << >>
    /\ updateInputs' = << >>
    /\ lastOp' = NoOp
    /\ UNCHANGED <<parserVars, evalVars, sortVars, normVars, estVars>>

\* evaluator.ts:153-163; its button is there when there is a recommended
\* card and the mode is main (evaluator.ts:258-262)
enterUpdateMode ==
    /\ analyzed # None
    /\ mode = "main"
    /\ recommendedSorted(Val(analyzed)).result # << >>
    /\ updateTargets' = recommendedSorted(Val(analyzed)).result
    /\ updateInputs' = [k \in KeysOf(recommendedSorted(Val(analyzed)).result) |-> BlankText]
    /\ mode' = "update"
    /\ lastOp' = NoOp
    /\ UNCHANGED <<analyzed, parserVars, evalVars, sortVars, normVars, estVars>>

\* evaluator.ts:165-167
exitUpdateMode ==
    /\ mode = "update"
    /\ mode' = "main"
    /\ lastOp' = NoOp
    /\ UNCHANGED <<analyzed, updateTargets, updateInputs>>
    /\ UNCHANGED <<parserVars, evalVars, sortVars, normVars, estVars>>

\* evaluator.ts:169-172, typed or pasted into the text area of target i
setUpdateText ==
    \E i \in 1..Len(updateTargets), txt \in PasteTexts :
        /\ mode = "update"
        /\ updateInputs' = WithInput(updateInputs, getCardKey(updateTargets[i]), txt)
        /\ lastOp' = NoOp
        /\ UNCHANGED <<analyzed, mode, updateTargets>>
        /\ UNCHANGED <<parserVars, evalVars, sortVars, normVars, estVars>>

\* the returns of applyUpdate that clear the text area first
applyRejected_clears(ckey) ==
    /\ updateInputs' = WithInput(updateInputs, ckey, BlankText)
    /\ UNCHANGED <<analyzed, mode, updateTargets>>

\* evaluator.ts:179-182 and 186-189: the two returns after an alert
applyRejected(ckey) == UNCHANGED <<analyzed, mode, updateTargets, updateInputs>>

\* a next card that takes the new odds and keeps the rank it had
nextCard_keepsRank(c, upd) ==
    [c EXCEPT !.placeRangeText = WithEnDash(Val(upd.placeRangeRaw)),
              !.placeLow = upd.placeLow,
              !.winOdds = IF upd.winOdds # None THEN upd.winOdds ELSE @,
              !.tags = updateTags(c.tags, c.winPopularity, Val(upd.placeLow))]

\* evaluator.ts:191-200
nextCard(c, upd) ==
    [c EXCEPT !.rank = rankFromPlaceLow(Val(upd.placeLow)),
              !.placeRangeText = WithEnDash(Val(upd.placeRangeRaw)),
              !.placeLow = upd.placeLow,
              !.winOdds = IF upd.winOdds # None THEN upd.winOdds ELSE @,
              !.tags = updateTags(c.tags, c.winPopularity, Val(upd.placeLow))]

\* a replacement that takes the card out of the list when its new rank is B
ReplaceByKey_dropsB(cs, ckey, nc) ==
    IF nc.rank = "B"
    THEN SelectSeq(cs, LAMBDA c : getCardKey(c) # ckey)
    ELSE [k \in 1..Len(cs) |-> IF getCardKey(cs[k]) = ckey THEN nc ELSE cs[k]]

\* a replacement that stops at the first card with the key
ReplaceByKey_first(cs, ckey, nc) ==
    [k \in 1..Len(cs) |->
        IF getCardKey(cs[k]) = ckey /\ \A j \in 1..(k - 1) : getCardKey(cs[j]) # ckey
        THEN nc ELSE cs[k]]

\* .map((c) => (getCardKey(c) === ckey ? nextCard : c))
ReplaceByKey(cs, ckey, nc) ==
    [k \in 1..Len(cs) |-> IF getCardKey(cs[k]) = ckey THEN nc ELSE cs[k]]

\* evaluator.ts:174-211, the update button of target i
applyUpdateOf(i) ==
        LET c == updateTargets[i]
            ckey == getCardKey(c)
            pasted == InputOf(ckey)
            upd == extractOddsFromPastedText(pasted, c.horseName)
        IN  /\ mode = "update"
            /\ analyzed # None
            /\ IF pasted = BlankText
               THEN applyRejected(ckey) /\ lastOp' = Op("applyUpdate", "blank")
               ELSE IF upd.placeRangeRaw = None \/ upd.placeLow = None
                       \/ upd.placeHigh = None
               THEN applyRejected(ckey) /\ lastOp' = Op("applyUpdate", "no range")
               ELSE /\ updateTargets' = ReplaceByKey(updateTargets, ckey, nextCard(c, upd))
                    /\ analyzed' = Some(ReplaceByKey(Val(analyzed), ckey, nextCard(c, upd)))
                    /\ updateInputs' = WithInput(updateInputs, ckey, BlankText)
                    /\ mode' = mode
                    /\ lastOp' = Op("applyUpdate", "applied")
            /\ UNCHANGED <<parserVars, evalVars, sortVars, normVars, estVars>>

applyUpdate == \E i \in 1..Len(updateTargets) : applyUpdateOf(i)

AppNext ==
    \/ analyze
    \/ clear
    \/ enterUpdateMode
    \/ exitUpdateMode
    \/ setUpdateText
    \/ applyUpdate

(***************************************************************************)
(* The two vetoes side by side: evaluate of part_000 and of part_001 on    *)
(* blocks of favourites with and without win odds.                         *)
(***************************************************************************)
MaxVetoRunners == 4

\* runners as parseAll returns them: from a range line without a win label
\* (popularity and place range, no win odds) or with win odds and no range
VetoPool ==
    { Ranged(1, None, 11, 13),
      Ranged(2, None, 12, 15),
      Unmeasured("Fav2", Some(2), Some(36)),
      Unmeasured("Third", Some(3), Some(32)),
      Unmeasured("Mid4", Some(4), Some(35)),
      Ranged(6, Some(40), 25, 40) }

VetoInit ==
    /\ block \in {Block(Some("Nakayama"), 7, rs) : rs \in SeqsUpTo(VetoPool, MaxVetoRunners)}
    /\ scorer = ""
    /\ card = None

VetoNext == Evaluate \/ Evaluate_odds

(***************************************************************************)
(* parseAll, then evaluate on a block it returned (evaluator.ts:143-144).  *)
(***************************************************************************)
\* evaluate of part_001 on the k-th returned block
EvaluateParsed ==
    \E k \in 1..Len(blocks) :
        /\ pc = "done"
        /\ scorer = ""
        /\ block' = blocks[k]
        /\ scorer' = "part_001"
        /\ card' = Some(evaluate(blocks[k]))
        /\ UNCHANGED <<parserVars, sortVars, normVars, estVars, appVars>>

\* evaluate of evaluator.ts on the k-th returned block
EvaluateParsed_ts ==
    \E k \in 1..Len(blocks) :
        /\ pc = "done"
        /\ scorer = ""
        /\ block' = blocks[k]
        /\ scorer' = "evaluator.ts"
        /\ card' = Some(evaluate_ts(blocks[k]))
        /\ UNCHANGED <<parserVars, sortVars, normVars, estVars, appVars>>

PipelineNext == ParserNext \/ EvaluateParsed \/ EvaluateParsed_ts

(***************************************************************************)
(* The specifications.                                                     *)
(***************************************************************************)
\* parseAll has not been called
IdleParser == ParserInit

InitParse == ParserInit /\ IdleEval /\ IdleSort /\ IdleNorm /\ IdleEst /\ IdleApp
SpecParse == InitParse /\ [][ParserNext]_vars

InitEval == EvalInit /\ IdleParser /\ IdleSort /\ IdleNorm /\ IdleEst /\ IdleApp
SpecEval == InitEval /\ [][EvalNext]_vars

InitSort == SortInit /\ IdleParser /\ IdleEval /\ IdleNorm /\ IdleEst /\ IdleApp
SpecSort == InitSort /\ [][SortNext]_vars

InitNorm == NormInit /\ IdleParser /\ IdleEval /\ IdleSort /\ IdleEst /\ IdleApp
SpecNorm == InitNorm /\ [][NormNext]_vars

InitEst == EstInit /\ IdleParser /\ IdleEval /\ IdleSort /\ IdleNorm /\ IdleApp
SpecEst == InitEst /\ [][EstNext]_vars

InitApp == AppInit /\ IdleParser /\ IdleEval /\ IdleSort /\ IdleNorm /\ IdleEst
SpecApp == InitApp /\ [][AppNext]_vars

InitVeto == VetoInit /\ IdleParser /\ IdleSort /\ IdleNorm /\ IdleEst /\ IdleApp
SpecVeto == InitVeto /\ [][VetoNext]_vars

InitPipeline == ParserInit /\ IdleEval /\ IdleSort /\ IdleNorm /\ IdleEst /\ IdleApp
SpecPipeline == InitPipeline /\ [][PipelineNext]_vars

(***************************************************************************)
(* The claims.                                                             *)
(***************************************************************************)

\* ---- parseAll: the history of headers and runners, cut into blocks ------
\* the place in log of the header that ends the segment starting after s
SegmentEnd(s) ==
    Min({i \in (s + 1)..Len(log) : log[i].e = "header"} \cup {Len(log) + 1})

\* the runners pushed after place s of log and before the next header
SegmentRunners(s) == [j \in 1..(SegmentEnd(s) - s - 1) |-> log[s + j].r]

\* the block of the segment that starts after place s (0: the start of input)
SegmentBlock(s) ==
    IF s = 0 THEN Block(None, 1, SegmentRunners(0))
    ELSE Block(log[s].h.trackName, log[s].h.raceNo, SegmentRunners(s))

RECURSIVE SegmentBlocksFrom(_)
SegmentBlocksFrom(s) ==
    (IF SegmentRunners(s) = << >> THEN << >> ELSE <<SegmentBlock(s)>>)
    \o (IF SegmentEnd(s) > Len(log) THEN << >>
        ELSE SegmentBlocksFrom(SegmentEnd(s)))

\* the place in log of the last header, 0 when there is none
LastHeader == Max({i \in 1..Len(log) : log[i].e = "header"} \cup {0})

\* C1: every RaceBlock parseAll holds or returns has at least one runner; a
\* header followed by no runner gives no block.
C1_BlocksHaveRunners ==
    \A i \in 1..Len(blocks) : Len(blocks[i].runners) >= 1

\* parseAll has returned a block, and one header of the text was followed
\* by no runner
C1_Witness ==
    /\ pc = "done"
    /\ Len(blocks) >= 1
    /\ \E i \in 1..Len(log) :
          /\ log[i].e = "header"
          /\ (i = Len(log) \/ log[i + 1].e = "header")

\* ---- evaluate ------------------------------------------------------------
InMidTier(r) ==
    r.winPopularity # None /\ Val(r.winPopularity) >= 4 /\ Val(r.winPopularity) <= 8

Top12Count(b) ==
    Cardinality({i \in 1..Len(b.runners) :
        b.runners[i].winPopularity # None /\ Val(b.runners[i].winPopularity) \in {1, 2}})

NoMidTier(b) == \A i \in 1..Len(b.runners) : ~InMidTier(b.runners[i])

\* C2: with the popularity veto (part_001, evaluator.ts) the card has rank C
\* exactly when two or more runners have popularity 1 or 2, or no runner
\* has popularity 4..8; the veto comes first and gives the strong-field
\* reason, the other case the no-candidate reason; in both the tags and the
\* horse name are empty.
C2_RankCIff ==
    scorer \in {"part_001", "evaluator.ts"} =>
        LET c == Val(card)
        IN  /\ c.rank = "C" <=> (Top12Count(block) >= 2 \/ NoMidTier(block))
            /\ Top12Count(block) >= 2 =>
                  /\ c.reason = Some(StrongFieldReason)
                  /\ c.tags = << >> /\ c.horseName = << >>
            /\ (Top12Count(block) < 2 /\ NoMidTier(block)) =>
                  /\ c.reason = Some(NoCandidateReason)
                  /\ c.tags = << >> /\ c.horseName = << >>

\* a vetoed race that has a runner of popularity 4..8
C2_Witness ==
    /\ scorer = "evaluator.ts"
    /\ Top12Count(block) >= 2
    /\ ~NoMidTier(block)
    /\ Val(card).rank = "C"

\* the operative place low of a runner: measured, else estimated, else -1
OperativeLo(r) ==
    IF r.placeLow # None THEN Val(r.placeLow)
    ELSE IF r.winOdds # None THEN Val(estimatePlaceLowFromWinOdds(r.winOdds))
    ELSE -1

\* runner i of the block is the one the card shows
IsPick(b, c, i) ==
    /\ InMidTier(b.runners[i])
    /\ c.horseName = b.runners[i].horseName
    /\ c.winPopularity = b.runners[i].winPopularity
    /\ c.winOdds = b.runners[i].winOdds
    /\ c.placeLow = Some(OperativeLo(b.runners[i]))

\* C3: the pick of part_001 is a runner of popularity 4..8 whose operative
\* place low is the largest among these runners and, among those with that
\* place low, whose popularity number is the smallest.
C3_PickIsBest ==
    (scorer = "part_001" /\ Val(card).rank # "C") =>
        \E i \in 1..Len(block.runners) :
            /\ IsPick(block, Val(card), i)
            /\ \A j \in 1..Len(block.runners) :
                  InMidTier(block.runners[j]) =>
                      /\ OperativeLo(block.runners[j]) <= OperativeLo(block.runners[i])
                      /\ OperativeLo(block.runners[j]) = OperativeLo(block.runners[i])
                            => Val(block.runners[i].winPopularity)
                                  <= Val(block.runners[j].winPopularity)

\* popularity 7 pasted before popularity 5, both with place low 2.5: the
\* card shows the runner of popularity 5
C3_Witness ==
    /\ scorer = "part_001"
    /\ Len(block.runners) = 2
    /\ block.runners[1].winPopularity = Some(7)
    /\ block.runners[1].placeLow = Some(25)
    /\ block.runners[2].winPopularity = Some(5)
    /\ block.runners[2].placeLow = Some(25)
    /\ Val(card).winPopularity = Some(5)

\* runner i of the block is the one the card of evaluator.ts shows
IsPick_ts(b, c, i) ==
    /\ InMidTier(b.runners[i])
    /\ c.horseName = b.runners[i].horseName
    /\ c.winPopularity = b.runners[i].winPopularity
    /\ c.winOdds = b.runners[i].winOdds
    /\ c.placeLow = b.runners[i].placeLow

\* rank is the rank of the place low lo
RankIs(rank, lo) ==
    /\ rank = "S" <=> lo >= 30
    /\ rank = "A" <=> (lo >= 22 /\ lo < 30)
    /\ rank = "B" <=> lo < 22

\* C4: a card that is not C has rank S exactly when the operative place low
\* of its pick is >= 3.0, A exactly when it is in [2.2, 3.0), B exactly when
\* it is below 2.2 (-1 included); the place low is the measured one, else
\* the estimate, else -1 in part_001, and the measured one, else 0, in
\* evaluator.ts.
C4_RankThresholds ==
    /\ (scorer = "part_001" /\ Val(card).rank # "C") =>
          \E i \in 1..Len(block.runners) :
              /\ IsPick(block, Val(card), i)
              /\ RankIs(Val(card).rank, OperativeLo(block.runners[i]))
    /\ (scorer = "evaluator.ts" /\ Val(card).rank # "C") =>
          \E i \in 1..Len(block.runners) :
              /\ IsPick_ts(block, Val(card), i)
              /\ RankIs(Val(card).rank, OrElse(block.runners[i].placeLow, 0))

\* the three ranks at their edges: an estimate of exactly 3.0 gives S, and a
\* pick with neither place low nor win odds gives B
C4_Witness ==
    /\ scorer = "part_001"
    /\ \/ /\ Val(card).rank = "S" /\ Val(card).placeLow = Some(30)
          /\ Val(card).placeRangeText.kind = "estimated"
       \/ Val(card).rank = "B" /\ Val(card).placeLow = Some(-1)

\* ---- recommendedSorted ---------------------------------------------------
Count(s, x) == Cardinality({i \in 1..Len(s) : s[i] = x})

\* the text of a card's race: the venue, or the two characters of "unknown",
\* followed by the digits of the race number
RaceString(c) ==
    (IF c.trackName = None THEN <<19981, 26126>> ELSE TrackChars(Val(c.trackName)))
    \o (IF c.raceNo >= 10 THEN <<48 + 1, 48 + (c.raceNo - 10)>> ELSE <<48 + c.raceNo>>)

\* x is before y, or equal to it, in the order of strings
RECURSIVE StringLeq(_, _)
StringLeq(x, y) ==
    \/ x = << >>
    \/ /\ y # << >>
       /\ \/ Head(x) < Head(y)
          \/ Head(x) = Head(y) /\ StringLeq(Tail(x), Tail(y))

C5_Sorted ==
    sortPc = "returned" =>
        /\ \A c \in CardPool :
              Count(recommended, c) = IF c.rank \in {"S", "A"} THEN Count(cards, c) ELSE 0
        /\ \A i \in 1..Len(recommended) : recommended[i] \in CardPool
        /\ \A i, j \in 1..Len(recommended) :
              i < j =>
                 LET x == recommended[i]
                     y == recommended[j]
                 IN  /\ x.rank = "A" => y.rank = "A"
                     /\ x.rank = y.rank =>
                           OrElse(x.placeLow, -1) >= OrElse(y.placeLow, -1)
                     /\ (x.rank = y.rank /\ OrElse(x.placeLow, -1) = OrElse(y.placeLow, -1))
                           => StringLeq(RaceString(x), RaceString(y))

Clamped40(w) == IF 48 + w < 48 THEN 48 ELSE IF 48 + w > 240 THEN 240 ELSE 48 + w

\* x / 40 rounded to one decimal, a half rounded up as Math.round does, in
\* tenths
RoundedToTenths(x) == (x + 2) \div 4

\* C6: for win odds w in tenths the estimate is clamp(1.2 + 0.25 w, 1.2,
\* 6.0) rounded to one decimal; it is 2.2 at 4.0, 3.2 at 8.0, 1.2 at 0, 6.0
\* from 19.2 on, it does not decrease with w and it is within [1.2, 6.0].
C6_EstimateIsRounded ==
    (estPc = "returned" /\ estArg # None) =>
        LET w == Val(estArg)
            e == Val(estResult)
        IN  /\ e = RoundedToTenths(Clamped40(w))
            /\ w = 40 => e = 22
            /\ w = 80 => e = 32
            /\ w = 0 => e = 12
            /\ w >= 192 => e = 60
            /\ e >= 12 /\ e <= 60
            /\ \A v \in 0..w : Val(estimatePlaceLowFromWinOdds(Some(v))) <= e

\* ---- monotonicity --------------------------------------------------------
RankOrder(r) == IF r = "S" THEN 3 ELSE IF r = "A" THEN 2 ELSE IF r = "B" THEN 1 ELSE 0

\* block y is block x with the measured place low of runner i raised and
\* every other runner as it was
RaisedAt(x, y, i) ==
    /\ Len(y.runners) = Len(x.runners)
    /\ x.trackName = y.trackName /\ x.raceNo = y.raceNo
    /\ \A k \in 1..Len(x.runners) : k # i => y.runners[k] = x.runners[k]
    /\ x.runners[i].placeLow # None /\ y.runners[i].placeLow # None
    /\ Val(y.runners[i].placeLow) > Val(x.runners[i].placeLow)
    /\ y.runners[i].winPopularity = x.runners[i].winPopularity
    /\ y.runners[i].horseName = x.runners[i].horseName

\* C7: when part_001 scores a race again after the measured place low of
\* its pick was raised and nothing else changed, the same runner is the pick
\* and the rank is not worse than before.
C7_Monotone ==
    [][(/\ scorer = "part_001" /\ scorer' = "part_001"
        /\ Val(card).rank # "C"
        /\ RaisedAt(block, block', bestIndex(block)))
       => /\ Val(card').rank # "C"
          /\ bestIndex(block') = bestIndex(block)
          /\ IsPick(block', Val(card'), bestIndex(block))
          /\ RankOrder(Val(card').rank) >= RankOrder(Val(card).rank)]_vars

\* the pick Mid6, pasted with place low 2.1 (rank B), scored again at 3.0:
\* still the pick, among other candidates, now with rank S
C7_Witness ==
    /\ scorer = "part_001"
    /\ Len(block.runners) = 3
    /\ \E i \in 1..Len(block.runners) :
          /\ block.runners[i].horseName = Named("Mid6")
          /\ block.runners[i].placeLow = Some(30)
          /\ \E j \in 1..Len(block.runners) : j # i /\ InMidTier(block.runners[j])
    /\ Val(card).horseName = Named("Mid6")
    /\ Val(card).rank = "S"

\* ---- normalize -------------------------------------------------------------
Replaced == {WaveDash, EnDash, HorizontalBar, EmDash, IdeographicSpace}

\* C8: normalize(normalize(x)) = normalize(x), and normalize(x) holds no
\* wave dash, en dash, horizontal bar, em dash or ideographic space.
C8_NormalizeIdempotent ==
    /\ normCalls >= 1 =>
          \A i \in 1..Len(normalized[1]) : normalized[1][i] \notin Replaced
    /\ normCalls = 2 => normalized[2] = normalized[1]

\* a text of an em dash and a full-width digit, normalized twice
C8_Witness ==
    /\ normCalls = 2
    /\ text = <<EmDash, "U+FF17">>
    /\ normalized[1] = <<"-", "7">>

\* ---- parseAll: headers -----------------------------------------------------
\* C9: the returned blocks are, in the order of their headers, the runs of
\* runners between one header (or the start of the text) and the next (or
\* the end), those without runners left out, each with its header's venue
\* and race number and its runners in paste order; while the text is read,
\* the runners of the open block are those pushed since the last header.
C9_BlocksFollowHeaders ==
    /\ pc = "done" => blocks = SegmentBlocksFrom(0)
    /\ pc = "lines" =>
          /\ currentRunners = SegmentRunners(LastHeader)
          /\ blocks \o (IF currentRunners = << >> THEN << >>
                        ELSE <<Block(currentTrack, Val(currentRaceNo), currentRunners)>>)
                = SegmentBlocksFrom(0)

\* two blocks returned, the first of two runners pasted before any header
C9_Witness ==
    /\ pc = "done"
    /\ Len(blocks) = 2
    /\ Len(blocks[1].runners) = 2
    /\ log[3].e = "header"

\* the line read by this step is a header line
ReadsHeader == Len(input') = Len(input) + 1 /\ detectHeader(Last(input')) # None

\* C10: a header line is taken as a header in every mode: the frame buffer
\* and the pending name are dropped, frame capture ends, no runner is
\* pushed, the new block starts empty with the header's venue and race
\* number, and the block closed, if any, holds the runners pushed before.
C10_HeaderFirst ==
    [][ReadsHeader =>
          /\ cardActive' = FALSE
          /\ cardHorseName' = None /\ cardWinOdds' = None /\ cardWinPop' = None
          /\ pendingHorseName' = None
          /\ currentRunners' = << >>
          /\ currentTrack' = Val(detectHeader(Last(input'))).trackName
          /\ currentRaceNo' = Some(Val(detectHeader(Last(input'))).raceNo)
          /\ stats'.detectedRunnerLines = stats.detectedRunnerLines
          /\ stats'.detectedHeaders = stats.detectedHeaders + 1
          /\ blocks' = IF currentRunners = << >> THEN blocks
                       ELSE Append(blocks, Block(currentTrack, Val(currentRaceNo),
                                                 currentRunners))]_vars

\* a header read right after a frame marker and a name: the frame buffer is
\* empty again and frame capture is off
C10_Witness ==
    /\ Len(input) >= 3
    /\ detectFrameStart(input[Len(input) - 2])
    /\ looksLikeHorseNameLine(input[Len(input) - 1])
    /\ detectHeader(Last(input)) # None
    /\ pc = "lines"
    /\ ~cardActive /\ cardHorseName = None
    /\ currentRunners = << >>

\* ---- parseAll: runners before any header ---------------------------------
\* C11: the runners pushed before any header are in a block of race number
\* 1 without venue: the open block while no header was read, the first
\* block returned afterwards.
C11_HeaderlessBlock ==
    (Len(log) >= 1 /\ log[1].e = "runner") =>
        /\ (pc = "lines" /\ LastHeader = 0) =>
              /\ currentTrack = None /\ currentRaceNo = Some(1)
              /\ currentRunners = SegmentRunners(0)
              /\ blocks = << >>
        /\ (pc = "done" \/ LastHeader > 0) =>
              /\ Len(blocks) >= 1
              /\ blocks[1] = Block(None, 1, SegmentRunners(0))

\* a runner, then a header of its own venue and number with a runner: two
\* blocks returned, the first of race 1 without venue
C11_Witness ==
    /\ pc = "done"
    /\ Len(log) = 3
    /\ log[1].e = "runner" /\ log[2].e = "header" /\ log[3].e = "runner"
    /\ log[2].h.trackName = Some("Nakayama")
    /\ Len(blocks) = 2
    /\ blocks[1].raceNo = 1 /\ blocks[1].trackName = None
    /\ blocks[2].raceNo = 7

\* ---- parseAll: frame capture ---------------------------------------------
\* C12: as soon as the name, the odds and the popularity of the frame
\* buffer are all filled, the runner is pushed and frame capture ends, on
\* the line that filled the last of them; so between two lines the buffer
\* never holds all three, and a header, a frame marker or the end of the
\* text never finds a completely filled buffer to discard.
C12_FilledBufferEmitted ==
    ~(cardHorseName # None /\ cardWinOdds # None /\ cardWinPop # None)

\* ---- parseAll: noise -------------------------------------------------------
\* the line read by this step is rejected as noise (parser.ts:216)
ReadsNoise ==
    /\ Len(input') = Len(input) + 1
    /\ detectHeader(Last(input')) = None
    /\ ~detectFrameStart(Last(input'))
    /\ isNoiseLine(Last(input'))

\* C13: a noise line leaves the venue, the race number, the runners
\* collected, the blocks, the pending name, and the frame-capture flag and
\* buffer as they were.
C13_NoiseKeepsState ==
    [][ReadsNoise =>
          UNCHANGED <<currentTrack, currentRaceNo, currentRunners, blocks,
                      pendingHorseName, cardActive, cardHorseName,
                      cardWinOdds, cardWinPop>>]_vars

\* a name line, a noise line, then the line ending in odds and popularity:
\* the runner is pushed with the name remembered across the noise line
C13_Witness ==
    /\ Len(input) = 3
    /\ looksLikeHorseNameLine(input[1])
    /\ isNoiseLine(input[2])
    /\ parseOddsPopAtLineEnd(input[3]) # None
    /\ Len(log) = 1
    /\ log[1].e = "runner" /\ log[1].n = 3
    /\ log[1].r.horseName = input[1]

\* ---- parseAll: ignored lines -----------------------------------------------
\* a line no recognizer matches
MatchesNothing(line) ==
    /\ detectHeader(line) = None
    /\ ~detectFrameStart(line)
    /\ ~isNoiseLine(line)
    /\ ~looksLikeHorseNameLine(line)
    /\ parseOddsOnlyLine(line) = None
    /\ parsePopularityOnlyLine(line) = None
    /\ parseRunnerLineSingle(line) = None
    /\ parseOddsPopAtLineEnd(line) = None

\* a line rejected as noise
RejectedAsNoise(line) ==
    detectHeader(line) = None /\ ~detectFrameStart(line) /\ isNoiseLine(line)

\* C14: stats.ignoredLines is the number of lines read that were noise or
\* matched no recognizer, whatever the mode they were read in.
C14_IgnoredCounted ==
    stats.ignoredLines =
        Cardinality({i \in 1..Len(input) :
                        RejectedAsNoise(input[i]) \/ MatchesNothing(input[i])})

\* ---- parseAll: self-contained lines ----------------------------------------
\* C15: every line read that is not a header, a frame marker or noise and
\* has one of the two self-contained shapes has pushed a runner, in frame
\* capture as well.
C15_SingleLineFirst ==
    \A i \in 1..Len(input) :
        (IsData(input[i]) /\ parseRunnerLineSingle(input[i]) # None) =>
            \E k \in 1..Len(log) : log[k].e = "runner" /\ log[k].n = i

\* C16: a runner pushed for a line of the range shape has the jockey name
\* and the horse name the older parser (part_002) takes from the tokens left
\* of the popularity mark.
C16_NamesRecovered ==
    \A k \in 1..Len(log) :
        (log[k].e = "runner" /\ log[k].r.placeRangeRaw # None) =>
            /\ log[k].r.jockeyName
                  = Val(parseRunnerLineSingle_002(input[log[k].n])).jockeyName
            /\ log[k].r.horseName
                  = Val(parseRunnerLineSingle_002(input[log[k].n])).horseName


\* ---- evaluate: the shape of a card ---------------------------------------
\* C17: every card evaluate returns, for the empty block as well, has a
\* rank S, A, B or C, at most three tags, no tag exactly when the rank is C,
\* as first tag the mid-tier tag with the popularity of the pick when the
\* rank is not C, and a reason exactly when the rank is C.
C17_CardShape ==
    scorer # "" =>
        LET c == Val(card)
        IN  /\ c.rank \in {"S", "A", "B", "C"}
            /\ Len(c.tags) <= 3
            /\ c.tags = << >> <=> c.rank = "C"
            /\ c.reason # None <=> c.rank = "C"
            /\ c.rank # "C" =>
                  /\ c.tags[1] = MidTag(c.winPopularity)
                  /\ \E i \in 1..Len(block.runners) :
                        /\ InMidTier(block.runners[i])
                        /\ block.runners[i].winPopularity = c.winPopularity
                        /\ block.runners[i].horseName = c.horseName

\* an estimated pick of rank A or S in a weak field: four tags apply and
\* three are shown, the first the mid-tier tag
C17_Witness ==
    /\ scorer = "part_001"
    /\ Val(card).rank \in {"S", "A"}
    /\ Val(card).placeRangeText.kind = "estimated"
    /\ Top12Count(block) <= 1
    /\ Len(Val(card).tags) = 3
    /\ Val(card).tags[1].t = "mid"

PastedFor(i) == InputOf(getCardKey(updateTargets[i]))
ExtractedFor(i) == extractOddsFromPastedText(PastedFor(i), updateTargets[i].horseName)

\* C19: a step of applyUpdate for a target whose text area is blank, or
\* from whose text no range a-b is extracted, leaves the main pick list, the
\* worklist, the texts of the text areas and the mode as they were.
C19_RejectedKeepsState ==
    [][\A i \in 1..Len(updateTargets) :
          (/\ applyUpdateOf(i)
           /\ PastedFor(i) = BlankText \/ ExtractedFor(i).placeLow = None)
          => UNCHANGED <<analyzed, updateTargets, updateInputs, mode>>]_vars

\* applyUpdate has just been refused for the only target: its text is not
\* blank, the line that holds the name of the card has no range and another
\* line has one
C19_Witness ==
    /\ lastOp = Op("applyUpdate", "no range")
    /\ mode = "update"
    /\ Len(updateTargets) = 1
    /\ PastedFor(1) = <<PasteLine(UnknownHorseName, None, None),
                        PasteLine(None, Some(<<20, 28>>), None)>>
    /\ Val(analyzed)[1] = evaluate_ts(Block(Some("Nakayama"), 7, <<Ranged(6, None, 30, 45)>>))

\* C20: a step of applyUpdate for a target from whose text the range a-b is
\* extracted leaves the target with place low a, the range text a-b with an
\* en dash, rank S when a >= 3.0, A when 2.2 <= a < 3.0 and B otherwise, the
\* win odds of the text when it has a win-labelled number and the old ones
\* otherwise, and the track, race number and horse name it had.
C20_UpdatedCard ==
    [][\A i \in 1..Len(updateTargets) :
          (/\ applyUpdateOf(i)
           /\ PastedFor(i) # BlankText
           /\ ExtractedFor(i).placeLow # None)
          => LET a == Val(ExtractedFor(i).placeLow)
                 b == Val(ExtractedFor(i).placeHigh)
                 old == updateTargets[i]
                 new == updateTargets'[i]
             IN  /\ new.placeLow = Some(a)
                 /\ new.placeRangeText = [kind |-> "range", a |-> a, b |-> b, dash |-> "en-dash"]
                 /\ new.rank = IF a >= 30 THEN "S" ELSE IF a >= 22 THEN "A" ELSE "B"
                 /\ new.winOdds = IF ExtractedFor(i).winOdds # None
                                  THEN ExtractedFor(i).winOdds ELSE old.winOdds
                 /\ new.trackName = old.trackName
                 /\ new.raceNo = old.raceNo
                 /\ new.horseName = old.horseName]_vars

\* the S card of Nakayama 7, read with 3.0-4.5, has been updated from the
\* text "<name> 2.2-3.4": it is now an A card with place low 2.2
C20_Witness ==
    /\ lastOp = Op("applyUpdate", "applied")
    /\ Len(updateTargets) = 1
    /\ updateTargets[1].trackName = Some("Nakayama")
    /\ updateTargets[1].rank = "A"
    /\ updateTargets[1].placeLow = Some(22)
    /\ updateTargets[1].placeRangeText = [kind |-> "range", a |-> 22, b |-> 34, dash |-> "en-dash"]
    /\ updateTargets[1].winOdds = None
    /\ Val(analyzed) = updateTargets

\* applyUpdate for target i goes past both returns
Succeeds(i) == PastedFor(i) # BlankText /\ ExtractedFor(i).placeLow # None

\* C21: after a successful step of applyUpdate for a card with key k, every
\* card with key k of the worklist and every card with key k of the main
\* pick list is the one updated card, which still has key k and is in both
\* lists.
C21_ListsAgree ==
    [][\A i \in 1..Len(updateTargets) :
          (applyUpdateOf(i) /\ Succeeds(i))
          => LET k == getCardKey(updateTargets[i])
                 nc == updateTargets'[i]
             IN  /\ getCardKey(nc) = k
                 /\ \A j \in 1..Len(updateTargets') :
                       getCardKey(updateTargets'[j]) = k => updateTargets'[j] = nc
                 /\ \A j \in 1..Len(Val(analyzed')) :
                       getCardKey(Val(analyzed')[j]) = k => Val(analyzed')[j] = nc
                 /\ \E j \in 1..Len(Val(analyzed')) : Val(analyzed')[j] = nc]_vars

\* the text of Nakayama 7 was analyzed twice over, the two S cards have one
\* key, and an update with 2.0-2.8 has made both the same B card in both lists
C21_Witness ==
    /\ lastOp = Op("applyUpdate", "applied")
    /\ Len(updateTargets) = 2
    /\ Len(Val(analyzed)) = 2
    /\ getCardKey(updateTargets[1]) = getCardKey(updateTargets[2])
    /\ updateTargets[1].rank = "B"
    /\ updateTargets[1].placeLow = Some(20)
    /\ updateTargets[2] = updateTargets[1]
    /\ Val(analyzed) = updateTargets

\* the text of the scenario: the header of Nakayama 7, a line with
\* popularity 2 and the place range 2.2-3.4, a line with popularity 6 and
\* the place range 2.0-2.8
ScenarioText ==
    << <<Track("Nakayama"), Race(7)>>,
       <<LongWord("HorseC"), NPop(2), PlaceRange(22, 34)>>,
       <<Word("HorseE"), Word("Jockey"), NPop(6), PlaceRange(20, 28)>> >>

\* parseAll has returned one block of Nakayama 7 for the scenario
ScenarioOneBlock ==
    /\ Len(blocks) = 1
    /\ blocks[1].trackName = Some("Nakayama")
    /\ blocks[1].raceNo = 7

\* C22, as the specification states it: for the scenario parseAll returns
\* one block of Nakayama 7 and evaluate of part_001 on it returns rank A
\* with the place range text 2.2-3.4 (en dash).
C22_ScenarioRankA ==
    (pc = "done" /\ input = ScenarioText /\ scorer = "part_001") =>
        /\ ScenarioOneBlock
        /\ Val(card).rank = "A"
        /\ Val(card).placeRangeText = [kind |-> "range", a |-> 22, b |-> 34, dash |-> "en-dash"]

\* C22, amended: for the scenario parseAll returns one block of Nakayama 7
\* with the two runners; the runner of popularity 2 is no candidate, so
\* evaluate picks the runner of popularity 6 and returns rank B with place
\* low 2.0 and the place range text 2.0-2.8 (en dash).
C22_ScenarioRankB ==
    (pc = "done" /\ input = ScenarioText) =>
        /\ ScenarioOneBlock
        /\ Len(blocks[1].runners) = 2
        /\ blocks[1].runners[1].winPopularity = Some(2)
        /\ blocks[1].runners[1].placeLow = Some(22)
        /\ blocks[1].runners[2].winPopularity = Some(6)
        /\ blocks[1].runners[2].placeLow = Some(20)
        /\ scorer = "part_001" =>
              /\ Val(card).rank = "B"
              /\ Val(card).winPopularity = Some(6)
              /\ Val(card).placeLow = Some(20)
              /\ Val(card).placeRangeText = [kind |-> "range", a |-> 20, b |-> 28, dash |-> "en-dash"]

\* the scenario has been parsed and its block evaluated by part_001
C22_Witness ==
    /\ pc = "done"
    /\ input = ScenarioText
    /\ scorer = "part_001"
    /\ block = blocks[1]
    /\ Val(card).rank = "B"

\* C23: in frame capture the three fields are filled in their order: the
\* win odds are in the buffer only when the horse name is, and the
\* popularity only when the win odds are.
C23_FilledInOrder ==
    /\ cardWinOdds # None => cardHorseName # None
    /\ cardWinPop # None => cardWinOdds # None

\* the positions of the lines read so far that are not noise lines
NonNoise == {i \in 1..Len(input) : ~isNoiseLine(input[i])}

\* C24: a line of the "odds popularity" layout is combined with a pending
\* horse name only when the name line is the last line before it that is
\* not a noise line.
C24_NextLineOnly ==
    [][LegacyLine =>
          /\ NonNoise # {}
          /\ looksLikeHorseNameLine(input[Max(NonNoise)])
          /\ input[Max(NonNoise)] = pendingHorseName]_vars

\* t is one of the tags
HasTag(tags, t) == \E k \in 1..Len(tags) : tags[k] = t

\* C25: after a successful step of applyUpdate with the new place low a the
\* tags of the card are, in this order, the mid-tier tag of the card's
\* popularity, the value tag exactly when a >= 2.2, and the weak-field tag
\* exactly when the card had it before; nothing else, three tags at most.
C25_RebuiltTags ==
    [][\A i \in 1..Len(updateTargets) :
          (applyUpdateOf(i) /\ Succeeds(i))
          => LET a == Val(ExtractedFor(i).placeLow)
                 old == updateTargets[i]
                 new == updateTargets'[i]
             IN  /\ new.tags =
                       <<MidTag(old.winPopularity)>>
                       \o (IF a >= 22 THEN <<ValueTag>> ELSE << >>)
                       \o (IF HasTag(old.tags, WeakFieldTag) THEN <<WeakFieldTag>> ELSE << >>)
                 /\ ~HasTag(new.tags, RefreshTag)
                 /\ Len(new.tags) <= 3]_vars

\* the card of popularity 6 had the value tag; an update with 2.0-2.8 has
\* taken it away and left the mid-tier tag and the weak-field tag
C25_Witness ==
    /\ lastOp = Op("applyUpdate", "applied")
    /\ \E i \in 1..Len(updateTargets) :
          /\ updateTargets[i].winPopularity = Some(6)
          /\ updateTargets[i].placeLow = Some(20)
          /\ updateTargets[i].tags = <<MidTag(Some(6)), WeakFieldTag>>

\* the positions of the header lines read so far
HeaderLinesRead == {i \in 1..Len(input) : detectHeader(input[i]) # None}

\* C26: a block that parseAll closes has the venue of the last header line
\* read before, none when that line names none or when there is no such
\* line, whatever the headers before it named.
C26_TrackOfOwnHeader ==
    [][Len(blocks') = Len(blocks) + 1 =>
          Last(blocks').trackName =
              IF HeaderLinesRead = {} THEN None
              ELSE Val(detectHeader(input[Max(HeaderLinesRead)])).trackName]_vars

\* the header of Nakayama 7, a runner, the bare header of race 3, a runner:
\* the second block has no venue
C26_Witness ==
    /\ pc = "done"
    /\ Len(input) = 4
    /\ input[1] = <<Track("Nakayama"), Race(7)>>
    /\ input[3] = <<Race(3)>>
    /\ Len(blocks) = 2
    /\ blocks[1].trackName = Some("Nakayama")
    /\ blocks[2].trackName = None
    /\ blocks[2].raceNo = 3

\* the keys of the cards of a list, in the order of the list
KeySeq(cs) == [k \in 1..Len(cs) |-> getCardKey(cs[k])]

\* C27: a step that begins and ends in update mode leaves the keys of the
\* worklist as they were, position by position (so a card that applyUpdate
\* has made a B card stays where it was), and a step that changes them is
\* analyze, clear or enterUpdateMode.
C27_WorklistFixed ==
    [][/\ (mode = "update" /\ mode' = "update")
             => KeySeq(updateTargets') = KeySeq(updateTargets)
       /\ KeySeq(updateTargets') # KeySeq(updateTargets)
             => (analyze \/ clear \/ enterUpdateMode)]_vars

\* in update mode the first card of the worklist has been made a B card: it
\* is still in the worklist and no longer among the recommended cards of the
\* main pick list
C27_Witness ==
    /\ mode = "update"
    /\ lastOp = Op("applyUpdate", "applied")
    /\ Len(updateTargets) = 2
    /\ updateTargets[1].rank = "B"
    /\ updateTargets[2].rank = "A"
    /\ Len(recommendedSorted(Val(analyzed)).result) = 1
    /\ recommendedSorted(Val(analyzed)).result[1] = updateTargets[2]

\* the card is the C card of the odds veto
OddsVetoed == Val(card) = CCard(block, StrongOddsReason)

\* the runners of the block at win odds 3.5 or less, by popularity
StrongAt(pops) ==
    {i \in 1..Len(block.runners) :
        /\ block.runners[i].winPopularity \in pops
        /\ block.runners[i].winOdds # None
        /\ Val(block.runners[i].winOdds) <= 35}
AnyPopularity == {None} \cup {Some(p) : p \in 1..18}

\* the block has a runner of popularity 1 and one of popularity 2, and none
\* of them has win odds of 3.5 or less
FavouritesNotStrong ==
    /\ \E i \in 1..Len(block.runners) : block.runners[i].winPopularity = Some(1)
    /\ \E i \in 1..Len(block.runners) : block.runners[i].winPopularity = Some(2)
    /\ StrongAt({Some(1), Some(2)}) = {}

\* C28, as the specification states it: evaluate of part_000 returns the
\* strong-field C card exactly when two runners or more have win odds of 3.5
\* or less, and a block whose runners of popularity 1 and 2 have win odds
\* above 3.5 or none is not vetoed.
C28_FavouritesDecide ==
    scorer = "part_000" =>
        /\ OddsVetoed <=> Cardinality(StrongAt(AnyPopularity)) >= 2
        /\ FavouritesNotStrong => ~OddsVetoed

\* C28, amended: evaluate of part_000 returns the strong-field C card
\* exactly when two runners or more, of any popularity, have win odds of 3.5
\* or less; a block whose runners of popularity 1 and 2 have win odds above
\* 3.5 or none is not vetoed when fewer than two of its other runners have
\* win odds of 3.5 or less, and is then scored as part_001 scores a block
\* that it does not veto.
C28_OddsDecide ==
    scorer = "part_000" =>
        /\ OddsVetoed <=> Cardinality(StrongAt(AnyPopularity)) >= 2
        /\ (FavouritesNotStrong
            /\ Cardinality(StrongAt(AnyPopularity \ {Some(1), Some(2)})) < 2)
              => ~OddsVetoed
        /\ ~OddsVetoed =>
              \/ Val(card) = CCard(block, NoCandidateReason)
              \/ /\ Val(card).rank \in {"S", "A", "B"}
                 /\ IsCandidate(block.runners[bestIndex(block)])
                 /\ Val(card).winPopularity = block.runners[bestIndex(block)].winPopularity

\* a block with a runner of popularity 1 and one of popularity 2, both
\* without win odds, and a candidate: part_000 does not veto it and picks
\* the candidate (part_001 vetoes it)
C28_Witness ==
    /\ scorer = "part_000"
    /\ FavouritesNotStrong
    /\ top12(block) >= 2
    /\ Val(card).rank = "A"
    /\ Val(card).winPopularity = Some(6)

\* the number of runners of a list of blocks
RECURSIVE TotalRunners(_)
TotalRunners(bs) ==
    IF bs = << >> THEN 0 ELSE Len(bs[1].runners) + TotalRunners(Tail(bs))

\* C29: when parseAll has returned, detectedRunnerLines is the number of
\* runners of the returned blocks, detectedRaces the number of blocks, and
\* there is at most one block more than headers detected; while the text is
\* read every runner counted is in a closed block or in the open one.
C29_StatsAgree ==
    /\ pc = "done" =>
          /\ stats.detectedRunnerLines = TotalRunners(blocks)
          /\ stats.detectedRaces = Len(blocks)
          /\ Len(blocks) <= stats.detectedHeaders + 1
    /\ pc = "lines" =>
          /\ stats.detectedRunnerLines = TotalRunners(blocks) + Len(currentRunners)
          /\ Len(blocks) <= stats.detectedHeaders

\* two runners before any header and one after a bare header: two blocks for
\* one header, three runners counted
C29_Witness ==
    /\ pc = "done"
    /\ stats.detectedHeaders = 1
    /\ stats.detectedRunnerLines = 3
    /\ stats.detectedRaces = 2
    /\ Len(blocks) = 2
    /\ Len(blocks[1].runners) = 2
    /\ blocks[2].trackName = None

\* a runner as the claim describes it
WellFormedRunner(r) ==
    /\ r.winPopularity # None
    /\ r.winOdds # None \/ r.placeLow # None
    /\ \/ r.placeLow # None /\ r.placeHigh # None /\ r.placeRangeRaw # None
       \/ r.placeLow = None /\ r.placeHigh = None /\ r.placeRangeRaw = None

\* C30: every runner parseAll pushes, holds in its open block or returns in
\* a block has a popularity, win odds or a place low, and the three fields
\* of the place range together or not at all; so when part_001 scores a
\* returned block, no runner has the operative place low -1.
C30_RunnersWellFormed ==
    /\ \A k \in 1..Len(log) : log[k].e = "runner" => WellFormedRunner(log[k].r)
    /\ \A k \in 1..Len(currentRunners) : WellFormedRunner(currentRunners[k])
    /\ \A k \in 1..Len(blocks) : \A j \in 1..Len(blocks[k].runners) :
          WellFormedRunner(blocks[k].runners[j])
    /\ (pc = "done" /\ scorer = "part_001") =>
          \A i \in 1..Len(block.runners) : Scored(block, i).lo # -1

\* a returned block with a runner of the range layout and a candidate that
\* has win odds only, scored by part_001 on the estimate
C30_Witness ==
    /\ pc = "done"
    /\ scorer = "part_001"
    /\ Len(block.runners) = 2
    /\ block.runners[1].placeLow # None /\ block.runners[1].horseName = None
    /\ block.runners[2].placeLow = None /\ block.runners[2].winOdds # None
    /\ Val(card).placeRangeText.kind = "estimated"

\* C31: a card of part_001, evaluator.ts or part_000 that is not C has a
\* popularity that is present and within 4..8, which is the popularity of a
\* runner of the block, and its first tag is the mid-tier tag of that
\* popularity, not the one of the "4-8" text.
C31_PickInMidTier ==
    (scorer \in {"part_001", "evaluator.ts", "part_000"} /\ Val(card).rank # "C") =>
        /\ Val(card).winPopularity \in {Some(p) : p \in 4..8}
        /\ \E i \in 1..Len(block.runners) :
              block.runners[i].winPopularity = Val(card).winPopularity
        /\ Val(card).tags[1] = MidTag(Val(card).winPopularity)
        /\ \A k \in 1..Len(Val(card).tags) : Val(card).tags[k] # MidTag(None)

\* a block of a runner without popularity at 5.0-7.0, a runner of popularity
\* 9 at 4.0-6.0 and a runner of popularity 6 at 2.1-3.0: the pick is the last
C31_Witness ==
    /\ scorer \in {"part_001", "evaluator.ts"}
    /\ Len(block.runners) = 3
    /\ \E i \in 1..3 : block.runners[i].winPopularity = None
                       /\ block.runners[i].placeLow = Some(50)
    /\ \E i \in 1..3 : block.runners[i].winPopularity = Some(9)
    /\ Val(card).rank = "B"
    /\ Val(card).winPopularity = Some(6)
    /\ Val(card).placeLow = Some(21)

\* C32: a card of part_001 or part_000 that is not C carries the weak-field
\* tag, and carries the refresh tag exactly when the place low of its pick
\* is an estimate and its rank is B.
C32_RefreshOnlyOnB ==
    (scorer \in {"part_001", "part_000"} /\ Val(card).rank # "C") =>
        /\ HasTag(Val(card).tags, WeakFieldTag)
        /\ \E i \in 1..Len(block.runners) :
              /\ IsPick(block, Val(card), i)
              /\ HasTag(Val(card).tags, RefreshTag)
                    <=> (block.runners[i].placeLow = None /\ Val(card).rank = "B")

\* part_000 has ranked a pick S on an estimate of 3.0: the card shows the
\* estimate and has the mid-tier, value and weak-field tags, no refresh tag
C32_Witness ==
    /\ scorer = "part_000"
    /\ Val(card).rank = "S"
    /\ Val(card).placeRangeText = EstimatedText(30)
    /\ Val(card).tags = <<MidTag(Some(4)), ValueTag, WeakFieldTag>>

\* the value tag goes with the ranks S and A, and a card that has a place
\* low and is not C has the rank of that place low
Coherent(c) ==
    /\ HasTag(c.tags, ValueTag) <=> c.rank \in {"S", "A"}
    /\ (c.placeLow # None /\ c.rank # "C") => RankIs(c.rank, Val(c.placeLow))

\* C33: in every state of the application every card of the main pick list
\* and of the correction worklist has the value tag exactly when its rank
\* is S or A and, when it has a place low and is not C, has the rank that
\* the 3.0 / 2.2 thresholds give that place low.
C33_CardsCoherent ==
    /\ analyzed # None => \A k \in 1..Len(Val(analyzed)) : Coherent(Val(analyzed)[k])
    /\ \A k \in 1..Len(updateTargets) : Coherent(updateTargets[k])

\* an update has just taken a recommended card down to B at 2.0, next to a
\* C card in the main list; the worklist holds the same B card
C33_Witness ==
    /\ lastOp = Op("applyUpdate", "applied")
    /\ analyzed # None
    /\ \E k \in 1..Len(Val(analyzed)) : Val(analyzed)[k].rank = "C"
    /\ \E k \in 1..Len(Val(analyzed)), j \in 1..Len(updateTargets) :
          /\ Val(analyzed)[k].rank = "B"
          /\ Val(analyzed)[k].placeLow = Some(20)
          /\ ~HasTag(Val(analyzed)[k].tags, ValueTag)
          /\ updateTargets[j] = Val(analyzed)[k]

\* C34: a successful applyUpdate of one target leaves every card of the
\* main pick list as it was except one card of the target's key.
C34_OneCardChanges ==
    [][\A i \in 1..Len(updateTargets) :
          (applyUpdateOf(i) /\ Succeeds(i))
          => /\ Len(Val(analyzed')) = Len(Val(analyzed))
             /\ \E k \in 1..Len(Val(analyzed)) :
                   /\ getCardKey(Val(analyzed)[k]) = getCardKey(updateTargets[i])
                   /\ \A j \in 1..Len(Val(analyzed)) :
                         j # k => Val(analyzed')[j] = Val(analyzed)[j]]_vars


=============================================================================
